---- MODULE Spec2Model ----
(***************************************************************************)
(* PollToMVR device discovery: the serial-gateway RDM discoverer           *)
(* (tui/rdm_search.py), the Art-Net discoverer (tui/artnet.py) and the     *)
(* discovery screen that runs them as workers (tui/screens.py).            *)
(***************************************************************************)
EXTENDS Integers, Sequences, FiniteSets, TLC

(***************************************************************************)
(* Bounds of the model.                                                    *)
(***************************************************************************)
\* The UID space of the model is [0, 2^UIDBits - 1] (48 bits in the program).
UIDBits == 3
\* At most this many devices sit on a simulated bus.
MaxDevices == 3
\* Requests explored under a gateway that may reply anything.
MaxRequests == 7
\* Ticks of the Art-Net collection window (the configured timeout).
Timeout == 2

(***************************************************************************)
(* Program constants (tui/rdm_search.py, tui/artnet.py).                   *)
(***************************************************************************)
HEADER == 165
PACKET_TYPE_RDM_RESPONSE == 17
PACKET_TYPE_RDM_PACKET_OUT == 16
PACKET_TYPE_RDM_DISCOVERY_UNIQUE_BRANCH == 18
PACKET_TYPE_RDM_DISCOVERY_RESPONSE == 19
PACKET_TYPE_RDM_INFO_COMMAND == 20
RDM_START_CODE == 204
RDM_SUB_START_CODE == 1
DISCOVERY_COMMAND == 16
DISCOVERY_COMMAND_RESPONSE == 17
GET_COMMAND == 32
GET_COMMAND_RESPONSE == 33
DISC_UNIQUE_BRANCH == 1
DISC_MUTE == 2
DISC_UN_MUTE == 3
SUPPORTED_PARAMETERS == 80
DEVICE_INFO == 96
DEVICE_MODEL_DESCRIPTION == 128
MANUFACTURER_LABEL == 129
DEVICE_LABEL == 130
SOFTWARE_VERSION_LABEL == 192
DMX_START_ADDRESS == 240
\* A destination that is no broadcast: the UID 00:00:00:00:00:00.
NO_DEVICE_ID == <<0, 0, 0, 0, 0, 0>>
BROADCAST_ALL_DEVICES_ID == <<255, 255, 255, 255, 255, 255>>
CONTROLLER_UID == <<82, 83, 2, 0, 0, 21>>
\* The range of a byte: bytearray() and bytes() accept 0 .. ByteRange - 1.
ByteRange == 256
\* Separator of a discovery reply's preamble.
SEPARATOR == 170

(***************************************************************************)
(* Bytes and byte strings.                                                 *)
(***************************************************************************)
Min(a, b) == IF a < b THEN a ELSE b
Max(a, b) == IF a > b THEN a ELSE b

RECURSIVE Pow2(_)
Pow2(n) == IF n = 0 THEN 1 ELSE 2 * Pow2(n - 1)

RECURSIVE BitAnd(_, _, _)
\* a & b on n-bit values
BitAnd(a, b, n) ==
  IF n = 0 THEN 0
  ELSE (a % 2) * (b % 2) + 2 * BitAnd(a \div 2, b \div 2, n - 1)

RECURSIVE BitOr(_, _, _)
\* a | b on n-bit values
BitOr(a, b, n) ==
  IF n = 0 THEN 0
  ELSE (IF a % 2 = 1 \/ b % 2 = 1 THEN 1 ELSE 0)
       + 2 * BitOr(a \div 2, b \div 2, n - 1)

RECURSIVE SumBytes(_)
\* Python's sum(data), summed by halves
SumBytes(s) ==
  IF s = <<>> THEN 0
  ELSE IF Len(s) = 1 THEN s[1]
  ELSE SumBytes(SubSeq(s, 1, Len(s) \div 2))
       + SumBytes(SubSeq(s, Len(s) \div 2 + 1, Len(s)))

\* Python's s[a:b] for 0 <= a, 0 <= b (0-based, b exclusive, clamped)
Slice(s, a, b) == SubSeq(s, a + 1, Min(b, Len(s)))
\* Python's s[a:]
SliceFrom(s, a) == SubSeq(s, a + 1, Len(s))
\* Python's s[:-k]
DropLast(s, k) == SubSeq(s, 1, Len(s) - k)
\* Python's s[-k:]
LastBytes(s, k) == SubSeq(s, Max(1, Len(s) - k + 1), Len(s))

IsBytes(s) == \A i \in 1..Len(s) : s[i] \in 0..(ByteRange - 1)

RECURSIVE Shr8(_, _)
\* n >> (8 * k)
Shr8(n, k) == IF k = 0 THEN n ELSE Shr8(n \div ByteRange, k - 1)

\* struct.pack(">Q", n)[2:] : the 6 big-endian bytes of a UID number
PackUid(n) == [i \in 1..6 |-> Shr8(n, 6 - i) % ByteRange]

RECURSIVE UnpackBE(_)
\* the number a big-endian byte string stands for
UnpackBE(s) ==
  IF s = <<>> THEN 0 ELSE UnpackBE(DropLast(s, 1)) * ByteRange + s[Len(s)]

\* struct.pack(">H", n)
PackH(n) == <<(n \div ByteRange) % ByteRange, n % ByteRange>>

\* Python's data.find(b) as a 1-based position, 0 when absent
Find(s, b) ==
  IF \E i \in 1..Len(s) : s[i] = b
  THEN CHOOSE i \in 1..Len(s) : s[i] = b /\ \A j \in 1..(i - 1) : s[j] # b
  ELSE 0

SeqToSet(s) == {s[i] : i \in 1..Len(s)}
NoDuplicates(s) == \A i, j \in 1..Len(s) : s[i] = s[j] => i = j

(***************************************************************************)
(* RDM and gateway codec (tui/rdm_search.py).                              *)
(***************************************************************************)
\* sum(data) & 0xFF
calculate_byte_sum_crc(data) == SumBytes(data) % ByteRange

\* A checksum that leaves the first byte, the start code, out.
calculate_rdm_checksum_headless(data) == SumBytes(Tail(data))

\* sum(data)
calculate_rdm_checksum(data) == SumBytes(data)

\* build_robe_packet padding every packet type.
build_robe_packet_padded(packet_type, rdm_packet, pad) ==
  LET data_to_wrap == rdm_packet \o pad
      data_len == Len(data_to_wrap)
      header_part == <<HEADER, packet_type, data_len % ByteRange,
                       (data_len \div ByteRange) % ByteRange>>
      header_crc == calculate_byte_sum_crc(header_part)
      packet == header_part \o <<header_crc>> \o data_to_wrap
  IN  packet \o <<calculate_byte_sum_crc(packet)>>

\* The gateway envelope around an RDM packet; pad stands for the 4 random
\* bytes the two padded packet types get.
build_robe_packet(packet_type, rdm_packet, pad) ==
  LET data_to_wrap ==
        IF packet_type \in {PACKET_TYPE_RDM_PACKET_OUT,
                            PACKET_TYPE_RDM_DISCOVERY_UNIQUE_BRANCH}
        THEN rdm_packet \o pad ELSE rdm_packet
      data_len == Len(data_to_wrap)
      header_part == <<HEADER, packet_type, data_len % ByteRange,
                       (data_len \div ByteRange) % ByteRange>>
      header_crc == calculate_byte_sum_crc(header_part)
      packet == header_part \o <<header_crc>> \o data_to_wrap
  IN  packet \o <<calculate_byte_sum_crc(packet)>>

\* The RDM packet that goes into the gateway envelope.  bytearray() raises
\* ValueError for an element outside range(0, 256), struct.pack for a pid
\* outside 16 bits: ok is FALSE and no packet is built.
build_rdm_packet(dest_uid, tn, cc, pid, pd) ==
  LET pdl == Len(pd)
      message_length == 24 + pdl
      packet_for_checksum ==
        <<RDM_START_CODE, RDM_SUB_START_CODE, message_length>>
        \o dest_uid \o CONTROLLER_UID \o <<tn, 1, 0>> \o <<0, 0>> \o <<cc>>
        \o PackH(pid) \o <<pdl>> \o pd
      checksum == calculate_rdm_checksum(packet_for_checksum)
  IN  IF IsBytes(packet_for_checksum) /\ pid \in 0..(ByteRange * ByteRange - 1)
      THEN [ok |-> TRUE, bytes |-> Tail(packet_for_checksum) \o PackH(checksum)]
      ELSE [ok |-> FALSE, bytes |-> <<>>]

\* Values a parser returns: kind "none" is Python's None.
None == [kind |-> "none", val |-> <<>>]
Value(kind, val) == [kind |-> kind, val |-> val]

WHITESPACE == {9, 10, 11, 12, 13, 28, 29, 30, 31, 32}

\* s without the leading and trailing elements that are in chars
Strip(s, chars) ==
  LET kept == {i \in 1..Len(s) : s[i] \notin chars}
  IN  IF kept = {} THEN <<>>
      ELSE SubSeq(s, CHOOSE i \in kept : \A j \in kept : i <= j,
                     CHOOSE i \in kept : \A j \in kept : i >= j)

\* pd.decode("utf-8", errors="ignore").strip(), for bytes that are ASCII or
\* lone bytes that no UTF-8 sequence holds (those are dropped)
parse_text_response(pd) ==
  Value("text", Strip(SelectSeq(pd, LAMBDA b : b < 128), WHITESPACE))

\* struct.unpack(f">{len(pd) // 2}H", pd): an odd length raises
parse_supported_parameters(pd) ==
  IF Len(pd) % 2 # 0 THEN [raised |-> TRUE, value |-> None]
  ELSE [raised |-> FALSE,
        value |-> Value("pids", [i \in 1..(Len(pd) \div 2) |->
                                   pd[2 * i - 1] * ByteRange + pd[2 * i]])]

\* struct.unpack(">HHHIHHHHB", pd): any length but 19 raises
parse_device_info(pd) ==
  IF Len(pd) # 19 THEN [raised |-> TRUE, value |-> None]
  ELSE [raised |-> FALSE,
        value |-> Value("device_info",
          <<UnpackBE(Slice(pd, 0, 2)), UnpackBE(Slice(pd, 2, 4)),
            UnpackBE(Slice(pd, 4, 6)), UnpackBE(Slice(pd, 6, 8)),
            UnpackBE(Slice(pd, 8, 10)), UnpackBE(Slice(pd, 10, 12)),
            pd[13], pd[14], UnpackBE(Slice(pd, 14, 16)),
            UnpackBE(Slice(pd, 16, 18)), pd[19]>>)]

\* struct.unpack(">H", pd)[0]
parse_dmx_start_address(pd) ==
  IF Len(pd) # 2 THEN [raised |-> TRUE, value |-> None]
  ELSE [raised |-> FALSE, value |-> Value("address", <<UnpackBE(pd)>>)]

parse_ack(pd, pid, cc) ==
  IF pd = <<>> THEN [raised |-> FALSE, value |-> Value("true", <<>>)]
  ELSE IF pid \in {DISC_MUTE, DISC_UN_MUTE}
  THEN IF Len(pd) # 2 THEN [raised |-> TRUE, value |-> None]
       ELSE [raised |-> FALSE, value |-> Value("control_field", <<UnpackBE(pd)>>)]
  ELSE [raised |-> FALSE, value |-> Value("bytes", pd)]

\* The UID a DISC_UNIQUE_BRANCH reply decodes to; <<>> is Python's None.
\* A decoder that returns no UID when the checksum of the reply differs.
parse_discovery_response_strict(rdm_data) ==
  LET separator_index == Find(rdm_data, SEPARATOR)
      euid_ecs_data == SliceFrom(rdm_data, separator_index)
      euid == Slice(euid_ecs_data, 0, 12)
      ecs == Slice(euid_ecs_data, 12, 16)
      received_checksum == BitAnd(ecs[1], ecs[2], 8) * ByteRange
                           + BitAnd(ecs[3], ecs[4], 8)
  IN  IF separator_index = 0 THEN <<>>
      ELSE IF Len(euid_ecs_data) < 16 THEN <<>>
      ELSE IF SumBytes(euid) # received_checksum THEN <<>>
      ELSE [i \in 1..6 |-> BitAnd(euid[2 * i - 1], euid[2 * i], 8)]

\* A decoder that takes the first byte of each pair for the UID byte.
parse_discovery_response_unmasked(rdm_data) ==
  LET separator_index == Find(rdm_data, SEPARATOR)
      euid_ecs_data == SliceFrom(rdm_data, separator_index)
      euid == Slice(euid_ecs_data, 0, 12)
  IN  IF separator_index = 0 THEN <<>>
      ELSE IF Len(euid_ecs_data) < 16 THEN <<>>
      ELSE [i \in 1..6 |-> euid[2 * i - 1]]

parse_discovery_response(rdm_data) ==
  LET separator_index == Find(rdm_data, SEPARATOR)
      euid_ecs_data == SliceFrom(rdm_data, separator_index)
      euid == Slice(euid_ecs_data, 0, 12)
  IN  IF separator_index = 0 THEN <<>>
      ELSE IF Len(euid_ecs_data) < 16 THEN <<>>
      ELSE [i \in 1..6 |-> BitAnd(euid[2 * i - 1], euid[2 * i], 8)]

\* (pid, response_data) of an RDM response; pid -1 is Python's None.  Every
\* exception raised while parsing is caught and gives (None, None).
parse_rdm_response(rdm_data, sent_pid) ==
  LET failed == [pid |-> -1, data |-> None]
      response_type == rdm_data[16]
      cc == rdm_data[20]
      pid == UnpackBE(Slice(rdm_data, 20, 22))
      pdl == rdm_data[23]
      pd == Slice(rdm_data, 23, 23 + pdl)
      parsed ==
        IF pid = DEVICE_INFO THEN parse_device_info(pd)
        ELSE IF pid = SUPPORTED_PARAMETERS THEN parse_supported_parameters(pd)
        ELSE IF pid \in {DEVICE_LABEL, SOFTWARE_VERSION_LABEL,
                         MANUFACTURER_LABEL, DEVICE_MODEL_DESCRIPTION}
        THEN [raised |-> FALSE, value |-> parse_text_response(pd)]
        ELSE IF pid = DMX_START_ADDRESS THEN parse_dmx_start_address(pd)
        ELSE parse_ack(pd, pid, cc)
  IN  IF rdm_data = <<>> THEN failed
      ELSE IF Len(rdm_data) < 23 THEN failed
      ELSE IF response_type # 0 THEN [pid |-> pid, data |-> None]
      ELSE IF parsed.raised THEN failed
      ELSE [pid |-> pid, data |-> parsed.value]

\* The status tuple (type, data) of a gateway response.  raised: the
\* function raised (IndexError on response[1], struct.error on a length
\* field of fewer than 2 bytes); it has no try of its own.
parse_robe_response(response, sent_pid) ==
  LET result(status, uid, rdm) ==
        [raised |-> FALSE, status |-> status, uid |-> uid, rdm |-> rdm]
      norm == [pid |-> -1, data |-> None]
      packet_type == response[2]
      data_len == response[3] + ByteRange * response[4]
      rdm_data_with_trailer == Slice(response, 5, Len(response) - 1)
      rdm_data == DropLast(rdm_data_with_trailer, 4)
      uid == parse_discovery_response(rdm_data)
  IN  IF response = <<>> \/ response[1] # HEADER
      THEN result("error", <<>>, norm)
      ELSE IF Len(response) < 4
      THEN [raised |-> TRUE, status |-> "raised", uid |-> <<>>, rdm |-> norm]
      ELSE IF packet_type = PACKET_TYPE_RDM_RESPONSE
      THEN result("ack", <<>>, parse_rdm_response(rdm_data, sent_pid))
      ELSE IF packet_type = PACKET_TYPE_RDM_DISCOVERY_RESPONSE
      THEN IF data_len = 4 THEN result("no_response", <<>>, norm)
           ELSE IF uid # <<>> THEN result("uid", uid, norm)
           ELSE result("collision", <<>>, norm)
      ELSE result("unhandled", <<>>, norm)

\* send_and_receive's result for the bytes read back from the port: an
\* empty read is "no_response"; anything else is parsed.
ReceiveStatus(response, sent_pid) ==
  IF response # <<>> THEN parse_robe_response(response, sent_pid)
  ELSE [raised |-> FALSE, status |-> "no_response", uid |-> <<>>,
        rdm |-> [pid |-> -1, data |-> None]]

(***************************************************************************)
(* The gateway and the DMX line behind it (the environment).  A request is *)
(* the RDM packet handed to build_robe_packet with its packet type; the    *)
(* gateway strips the random padding, so its replies depend on these only. *)
(***************************************************************************)
full_range_upper == Pow2(UIDBits) - 1
UIDs == 0..full_range_upper

Request(packet_type, rdm_packet) == [packet_type |-> packet_type, rdm |-> rdm_packet]
\* Fields of a written request, at the offsets build_rdm_packet puts them.
ReqDest(r) == SubSeq(r.rdm, 3, 8)
ReqTN(r) == r.rdm[15]
ReqCC(r) == r.rdm[20]
ReqPid(r) == r.rdm[21] * ByteRange + r.rdm[22]
ReqPd(r) == SubSeq(r.rdm, 24, 23 + r.rdm[23])
ReqLow(r) == UnpackBE(SubSeq(ReqPd(r), 1, 6))
ReqHigh(r) == UnpackBE(SubSeq(ReqPd(r), 7, 12))

\* A gateway response: envelope, data, the 4 bytes the gateway appends, sum.
RobeResponse(packet_type, data) ==
  LET body == data \o <<0, 0, 0, 0>>
      header_part == <<HEADER, packet_type, Len(body) % ByteRange,
                       (Len(body) \div ByteRange) % ByteRange>>
      packet == header_part \o <<calculate_byte_sum_crc(header_part)>> \o body
  IN  packet \o <<calculate_byte_sum_crc(packet)>>

\* An RDM response of a device, laid out as parse_rdm_response reads it.
RdmResponse(src_uid, tn, response_type, cc, pid, pd) ==
  LET head == <<RDM_SUB_START_CODE, 24 + Len(pd)>> \o CONTROLLER_UID \o src_uid
              \o <<tn, response_type, 0>> \o <<0, 0>> \o <<cc>> \o PackH(pid)
              \o <<Len(pd)>> \o pd
  IN  head \o PackH((RDM_START_CODE + SumBytes(head)) % (ByteRange * ByteRange))

\* The redundant encoding of a discovery reply: 7 preamble bytes, the
\* separator, each UID byte b as b|0xAA, b|0x55, then the checksum likewise.
EncodeUid(uid) ==
  [i \in 1..12 |-> IF i % 2 = 1 THEN BitOr(uid[(i + 1) \div 2], 170, 8)
                   ELSE BitOr(uid[i \div 2], 85, 8)]

DiscoveryReply(uid) ==
  LET euid == EncodeUid(uid)
      cs == SumBytes(euid)
      ecs == <<BitOr(cs \div ByteRange, 170, 8), BitOr(cs \div ByteRange, 85, 8),
               BitOr(cs % ByteRange, 170, 8), BitOr(cs % ByteRange, 85, 8)>>
  IN  RobeResponse(PACKET_TYPE_RDM_DISCOVERY_RESPONSE,
                   <<254, 254, 254, 254, 254, 254, 254, SEPARATOR>> \o euid \o ecs)

\* The gateway timed out waiting for a device: a data length of 4.
TimeoutReply == RobeResponse(PACKET_TYPE_RDM_DISCOVERY_RESPONSE, <<>>)
\* Several devices answered at once: bytes that hold no decodable reply.
CollisionReply ==
  RobeResponse(PACKET_TYPE_RDM_DISCOVERY_RESPONSE, <<254, 254, 187, 119, 255>>)

MuteAck(uid, tn) ==
  RobeResponse(PACKET_TYPE_RDM_RESPONSE,
    RdmResponse(uid, tn, 0, DISCOVERY_COMMAND_RESPONSE, DISC_MUTE, <<0, 0>>))

\* What a device holds for each parameter the program asks for.
DeviceParameter(uid, pid) ==
  IF pid = SUPPORTED_PARAMETERS THEN <<0, DEVICE_LABEL, 0, DMX_START_ADDRESS>>
  ELSE IF pid = DEVICE_INFO
  THEN <<1, 0, 0, 75, 1, 0, 0, 0, 0, 43, 0, 38, 1, 4, 0, 1, 0, 0, 3>>
  ELSE IF pid = DMX_START_ADDRESS THEN <<0, 1>>
  ELSE <<82, 111, 98, 101, 32>>

GetAck(uid, tn, pid) ==
  RobeResponse(PACKET_TYPE_RDM_RESPONSE,
    RdmResponse(uid, tn, 0, GET_COMMAND_RESPONSE, pid, DeviceParameter(uid, pid)))

\* A device refuses the parameter: response type NACK_REASON.
GetNack(uid, tn, pid) ==
  RobeResponse(PACKET_TYPE_RDM_RESPONSE,
    RdmResponse(uid, tn, 2, GET_COMMAND_RESPONSE, pid, <<0, 0>>))

\* The parameters a device supports: one with an odd UID has no device label.
Supports(d, pid) == pid # DEVICE_LABEL \/ d % 2 = 0

\* Devices of the line that answer a DISC_UNIQUE_BRANCH over [lo, hi].
Responders(line, mutedNow, lo, hi) ==
  {d \in line \ mutedNow : lo <= d /\ d <= hi}

\* The muted devices after the line has seen request r.
MutedAfter(r, line, deafDevices, mutedNow) ==
  IF ReqPid(r) = DISC_UN_MUTE /\ ReqCC(r) = DISCOVERY_COMMAND THEN {}
  ELSE IF ReqPid(r) = DISC_MUTE /\ ReqCC(r) = DISCOVERY_COMMAND
  THEN IF ReqDest(r) = BROADCAST_ALL_DEVICES_ID THEN line \ deafDevices
       ELSE mutedNow \cup {d \in line \ deafDevices : PackUid(d) = ReqDest(r)}
  ELSE mutedNow

\* The replies a well-behaved line can give to request r.
BusReplies(r, line, mutedNow) ==
  LET addressed == {d \in line : PackUid(d) = ReqDest(r)}
      answering == Responders(line, mutedNow, ReqLow(r), ReqHigh(r))
  IN  IF ReqCC(r) = DISCOVERY_COMMAND /\ ReqPid(r) = DISC_UNIQUE_BRANCH
      THEN IF answering = {} THEN {<<>>, TimeoutReply}
           ELSE IF Cardinality(answering) = 1
           THEN {DiscoveryReply(PackUid(d)) : d \in answering}
           ELSE {CollisionReply}
      ELSE IF ReqCC(r) = DISCOVERY_COMMAND /\ ReqPid(r) = DISC_MUTE
      THEN IF addressed = {} THEN {<<>>}
           ELSE {MuteAck(PackUid(d), ReqTN(r)) : d \in addressed}
      ELSE IF ReqCC(r) = GET_COMMAND
      THEN IF addressed = {} THEN {<<>>}
           ELSE {IF Supports(d, ReqPid(r))
                 THEN GetAck(PackUid(d), ReqTN(r), ReqPid(r))
                 ELSE GetNack(PackUid(d), ReqTN(r), ReqPid(r)) : d \in addressed}
      ELSE {<<>>}

\* The UIDs an unconstrained gateway reports: the search compares a
\* reported UID with the discovered ones only, so a few distinct ones do.
ReplyUIDs == {0, 1, full_range_upper}

\* Replies of a gateway that is bound by nothing: silence, a bad header
\* byte, responses cut before the length field is complete, and every
\* well-formed response, for any UID.
AnyReplies(r) ==
  {<<>>, <<0, 19, 4, 0>>, <<HEADER>>, <<HEADER, 19>>, <<HEADER, 19, 21>>,
   TimeoutReply, CollisionReply, RobeResponse(PACKET_TYPE_RDM_INFO_COMMAND + 1, <<>>),
   MuteAck(ReqDest(r), ReqTN(r)), GetAck(ReqDest(r), ReqTN(r), DEVICE_LABEL)}
  \cup {DiscoveryReply(PackUid(u)) : u \in ReplyUIDs}

(***************************************************************************)
(* State of one discovery run started by the Discover button               *)
(* (ArtNetScreen.run_rdm_discovery / run_network_discovery).               *)
(***************************************************************************)
VARIABLES
  network,          \* self.network: the selected interface or device path
  openable,         \* the OS lets that path be opened / that address be bound
  gateway,          \* "bus": a well-behaved line; "any": replies unconstrained
  bus,              \* UIDs of the devices on the line
  deaf,             \* devices that ignore DISC_MUTE and keep answering
  muted,            \* devices currently muted
  pc,               \* where the worker is
  port,             \* "none" (None), "open" or "closed" serial handle
  tn,               \* transaction number
  discovered_uids,  \* list of discovered UIDs (6-byte strings)
  stack,            \* call stack of binary_search_branch
  written,          \* requests written to the serial port, in order
  read,             \* the bytes the last send_and_receive read back
  posted,           \* messages posted to the screen, in order
  uid_index,        \* position of run_rdm_discovery's loop over discovered_uids
  pid_index,        \* position of get_device_parameters' loop over pids_to_get
  device_data,      \* parameters stored for the device being queried
  socket,           \* ArtNetDiscovery.socket: "none", "bound", "unbound", "closed"
  polls,            \* ArtPoll packets sent on the socket
  devices,          \* discover_devices' dict, in insertion order
  now,              \* ticks since discover_devices took start_time
  heard,            \* the datagrams received so far (history)
  disabled,         \* the Discover button's disabled flag
  label,            \* the Discover button's label
  workers,          \* the screen's running workers: what each has yet to post
  mailbox,          \* messages posted to the screen and not yet handled
  discovered_devices, \* ArtNetScreen.discovered_devices
  pressed,          \* Discover presses so far
  called,           \* the codec function applied, "none" before the call
  args,             \* the arguments of that call
  result,           \* what the call returned
  llrp,             \* where LlrpDiscovery.discover_devices stands
  probe_transaction, \* transaction, the number of the probe request
  clock,            \* time.time(), in ticks
  deadline,         \* deadline, then label_deadline
  llrp_devices,     \* discover_devices' dict of llrp.py, in insertion order
  tx,               \* the packets sent on tx_socket
  wait,             \* the timeouts handed to select.select so far
  received,         \* the datagrams read from rx_socket so far (history)
  returned          \* what discover_devices returned

serialVars == <<gateway, bus, deaf, muted, port, tn, discovered_uids, stack,
                written, read, uid_index, pid_index, device_data>>
artnetVars == <<socket, polls, devices, now, heard>>
screenVars == <<disabled, label, workers, mailbox, discovered_devices, pressed>>
runVars == <<openable, pc, posted, serialVars, artnetVars>>
codecVars == <<called, args, result>>
llrpVars == <<llrp, probe_transaction, clock, deadline, llrp_devices, tx, wait,
              received, returned>>

SerialPaths == {"/dev/ttyUSB0"}
Interfaces == {"0.0.0.0"}

pids_to_get == <<SUPPORTED_PARAMETERS, DEVICE_INFO, MANUFACTURER_LABEL,
                 DEVICE_MODEL_DESCRIPTION, DEVICE_LABEL, SOFTWARE_VERSION_LABEL,
                 DMX_START_ADDRESS>>

\* uid.hex(":"): two hexadecimal digits per byte
Hex(uid) == [i \in 1..(2 * Len(uid)) |->
               IF i % 2 = 1 THEN uid[(i + 1) \div 2] \div 16 ELSE uid[i \div 2] % 16]

\* Messages of tui/messages.py and those run_rdm_discovery builds.
Message(type, devs, error, text, off, data) ==
  [type |-> type, devices |-> devs, error |-> error, label |-> text,
   disabled |-> off, data |-> data]
NoDevices == [is_none |-> TRUE, list |-> <<>>]
DeviceList(l) == [is_none |-> FALSE, list |-> l]
NoData == [uid |-> <<>>, params |-> <<>>]
RdmDevicesDiscovered(devs, error) ==
  Message("RdmDevicesDiscovered", devs, error, "", FALSE, NoData)
NetworkDevicesDiscovered(devs, error) ==
  Message("NetworkDevicesDiscovered", devs, error, "", FALSE, NoData)
RdmDiscoveryMessage(text, off) ==
  Message("RdmDiscoveryMessage", NoDevices, "", text, off, NoData)
\* A detail message that carries no data.
RdmDeviceDetailEmpty(data) ==
  Message("RdmDeviceDetailDiscovered", NoDevices, "", "", FALSE, NoData)
RdmDeviceDetailDiscovered(data) ==
  Message("RdmDeviceDetailDiscovered", NoDevices, "", "", FALSE, data)

\* The replies the gateway can give to request r with these devices muted.
Replies(r, mutedNow) ==
  IF gateway = "any" THEN AnyReplies(r) ELSE BusReplies(r, bus, mutedNow)

\* The exploration of an unconstrained gateway is cut after MaxRequests.
WithinBound == gateway = "any" => Len(written) < MaxRequests

\* struct.error of struct.unpack("<H", ...) on a short buffer, IndexError of
\* response[1] on a one-byte response
ParseErrorText == "unpack requires a buffer of 2 bytes"
IndexErrorText == "index out of range"

\* send_and_receive with a guard the code does not have: a missing port is
\* taken for a silent one.
send_and_receive_guarded(ser, request, response, sent_pid) ==
  LET st == ReceiveStatus(response, sent_pid)
  IN  IF ser # "open"
      THEN [raised |-> FALSE, error |-> "", wrote |-> <<>>, read |-> read,
            status |-> "no_response", uid |-> <<>>, rdm |-> st.rdm]
      ELSE [raised |-> st.raised, read |-> response,
            error |-> IF ~st.raised THEN ""
                      ELSE IF Len(response) < 2 THEN IndexErrorText
                      ELSE ParseErrorText,
            wrote |-> <<request>>, status |-> st.status, uid |-> st.uid,
            rdm |-> st.rdm]

\* send_and_receive: write the packet, read the response, parse it.  With
\* ser = None the write raises AttributeError and nothing is written.
send_and_receive(ser, request, response, sent_pid) ==
  LET st == ReceiveStatus(response, sent_pid)
  IN  IF ser # "open"
      THEN [raised |-> TRUE, error |-> "'NoneType' object has no attribute 'write'",
            wrote |-> <<>>, read |-> read, status |-> "raised", uid |-> <<>>,
            rdm |-> st.rdm]
      ELSE [raised |-> st.raised, read |-> response,
            error |-> IF ~st.raised THEN ""
                      ELSE IF Len(response) < 2 THEN IndexErrorText
                      ELSE ParseErrorText,
            wrote |-> <<request>>, status |-> st.status, uid |-> st.uid,
            rdm |-> st.rdm]

\* run_rdm_discovery's except and finally clauses: the error is posted and
\* the port, when there is one and it is open, is closed.
Raised(error, nowWritten, nowRead, nowMuted) ==
  /\ read' = nowRead
  /\ posted' = Append(posted, RdmDevicesDiscovered(NoDevices, error))
  /\ port' = IF port = "open" THEN "closed" ELSE port
  /\ pc' = "done"
  /\ written' = nowWritten
  /\ muted' = nowMuted
  /\ UNCHANGED <<tn, discovered_uids, stack, uid_index, pid_index, device_data>>

ValueErrorText == "byte must be in range(0, 256)"

\* A counter that is not advanced.
IncrementForgotten(t) == t

\* tn += 1
Increment(t) == t + 1

\* get_port and the start of get_devices: tn = 0
get_port ==
  /\ UNCHANGED screenVars
  /\ UNCHANGED <<codecVars, llrpVars>>
  /\ pc = "start"
  /\ network \in SerialPaths
  /\ port' = IF openable THEN "open" ELSE "none"
  /\ tn' = 0
  /\ pc' = "discover"
  /\ UNCHANGED <<network, openable, gateway, bus, deaf, muted, discovered_uids,
                 stack, written, read, posted, uid_index, pid_index, device_data>>
  /\ UNCHANGED artnetVars

Frame(lower_bound, upper_bound, at) ==
  [lower_bound |-> lower_bound, upper_bound |-> upper_bound, at |-> at]

\* discover_all_devices up to the first call of binary_search_branch
discover_all_devices ==
  /\ UNCHANGED screenVars
  /\ UNCHANGED <<codecVars, llrpVars>>
  /\ pc = "discover"
  /\ LET built == build_rdm_packet(BROADCAST_ALL_DEVICES_ID, tn,
                                   DISCOVERY_COMMAND, DISC_UN_MUTE, <<>>)
         request == Request(PACKET_TYPE_RDM_PACKET_OUT, built.bytes)
     IN  IF ~built.ok THEN Raised(ValueErrorText, written, read, muted)
         ELSE \E response \in Replies(request, muted) :
           LET r == send_and_receive(port, request, response, DISC_UN_MUTE)
               nowMuted == IF r.wrote = <<>> THEN muted
                           ELSE MutedAfter(request, bus, deaf, muted)
           IN  IF r.raised THEN Raised(r.error, written \o r.wrote, r.read, nowMuted)
               ELSE /\ written' = written \o r.wrote
                    /\ read' = r.read
                    /\ muted' = nowMuted
                    /\ tn' = Increment(tn)
                    /\ discovered_uids' = <<>>
                    /\ stack' = <<Frame(0, full_range_upper, "call")>>
                    /\ pc' = "search"
                    /\ UNCHANGED <<port, posted, uid_index, pid_index, device_data>>
  /\ UNCHANGED <<network, openable, gateway, bus, deaf>>
  /\ UNCHANGED artnetVars

\* Unwind with an upper half that starts one UID too far.
UnwindTooFar(stk) ==
  LET lows == {i \in 1..Len(stk) : stk[i].at = "low"}
      i == CHOOSE k \in lows : \A j \in lows : k >= j
      mid_point == (stk[i].lower_bound + stk[i].upper_bound) \div 2
  IN  IF lows = {} THEN <<>>
      ELSE SubSeq(stk, 1, i - 1)
           \o <<Frame(stk[i].lower_bound, stk[i].upper_bound, "high"),
                Frame(mid_point + 2, stk[i].upper_bound, "call")>>

\* Returns of binary_search_branch, stk being the callers of the call that
\* returns: a frame waiting for its last recursive call returns too; the
\* innermost one waiting for its lower half calls its upper half.
Unwind(stk) ==
  LET lows == {i \in 1..Len(stk) : stk[i].at = "low"}
      i == CHOOSE k \in lows : \A j \in lows : k >= j
      mid_point == (stk[i].lower_bound + stk[i].upper_bound) \div 2
  IN  IF lows = {} THEN <<>>
      ELSE SubSeq(stk, 1, i - 1)
           \o <<Frame(stk[i].lower_bound, stk[i].upper_bound, "high"),
                Frame(mid_point + 1, stk[i].upper_bound, "call")>>

\* The state after a call of binary_search_branch has run up to its return
\* or its next recursive call.
Searched(nowTn, nowUids, nowStack, nowWritten, nowRead, nowMuted) ==
  /\ read' = nowRead
  /\ tn' = nowTn
  /\ discovered_uids' = nowUids
  /\ stack' = nowStack
  /\ written' = nowWritten
  /\ muted' = nowMuted
  /\ pc' = IF nowStack = <<>> THEN "searched" ELSE "search"
  /\ UNCHANGED <<port, posted, uid_index, pid_index, device_data>>

\* A list that is never appended to.
AppendNever(uids, uid) == uids

\* A membership test that never finds the UID.
IsNewAlways(uids, uid) == TRUE

\* uid not in discovered_uids
IsNew(uids, uid) == uid \notin SeqToSet(uids)

\* if uid not in discovered_uids: discovered_uids.append(uid)
AppendNew(uids, uid) == IF IsNew(uids, uid) THEN Append(uids, uid) ELSE uids

\* binary_search_branch, lower_bound == upper_bound: DISC_MUTE to that UID
search_single(f, rest) ==
  LET uid_to_check == PackUid(f.lower_bound)
      built == build_rdm_packet(uid_to_check, tn, DISCOVERY_COMMAND, DISC_MUTE, <<>>)
      request == Request(PACKET_TYPE_RDM_PACKET_OUT, built.bytes)
  IN  IF ~built.ok THEN Raised(ValueErrorText, written, read, muted)
      ELSE \E response \in Replies(request, muted) :
        LET r == send_and_receive(port, request, response, DISC_MUTE)
            nowMuted == IF r.wrote = <<>> THEN muted
                        ELSE MutedAfter(request, bus, deaf, muted)
        IN  IF r.raised THEN Raised(r.error, written \o r.wrote, r.read, nowMuted)
            ELSE Searched(Increment(tn),
                          IF r.status = "ack"
                          THEN AppendNew(discovered_uids, uid_to_check)
                          ELSE discovered_uids,
                          Unwind(rest), written \o r.wrote, r.read, nowMuted)

\* binary_search_branch, status == "uid": record and mute a new UID, then
\* search the same range again
search_found(f, rest, uid, nowWritten, nowRead, nowMuted) ==
  LET again == rest \o <<Frame(f.lower_bound, f.upper_bound, "uid"),
                         Frame(f.lower_bound, f.upper_bound, "call")>>
      built == build_rdm_packet(uid, Increment(tn), DISCOVERY_COMMAND, DISC_MUTE,
                                <<>>)
      request == Request(PACKET_TYPE_RDM_PACKET_OUT, built.bytes)
  IN  IF ~IsNew(discovered_uids, uid)
      THEN Searched(Increment(tn), discovered_uids, again, nowWritten, nowRead,
                    nowMuted)
      ELSE IF ~built.ok THEN Raised(ValueErrorText, nowWritten, nowRead, nowMuted)
      ELSE \E response \in Replies(request, nowMuted) :
        LET r == send_and_receive(port, request, response, DISC_MUTE)
            thenMuted == MutedAfter(request, bus, deaf, nowMuted)
        IN  IF r.raised THEN Raised(r.error, nowWritten \o r.wrote, r.read, thenMuted)
            ELSE Searched(Increment(Increment(tn)), Append(discovered_uids, uid),
                          again, nowWritten \o r.wrote, r.read, thenMuted)

\* binary_search_branch, lower_bound < upper_bound: DISC_UNIQUE_BRANCH
search_range(f, rest) ==
  LET pd == PackUid(f.lower_bound) \o PackUid(f.upper_bound)
      built == build_rdm_packet(BROADCAST_ALL_DEVICES_ID, tn, DISCOVERY_COMMAND,
                                DISC_UNIQUE_BRANCH, pd)
      request == Request(PACKET_TYPE_RDM_DISCOVERY_UNIQUE_BRANCH, built.bytes)
      mid_point == (f.lower_bound + f.upper_bound) \div 2
  IN  IF ~built.ok THEN Raised(ValueErrorText, written, read, muted)
      ELSE \E response \in Replies(request, muted) :
        LET r == send_and_receive(port, request, response, DISC_UNIQUE_BRANCH)
        IN  IF r.raised THEN Raised(r.error, written \o r.wrote, r.read, muted)
            ELSE IF r.status = "uid"
            THEN search_found(f, rest, r.uid, written \o r.wrote, r.read, muted)
            ELSE IF r.status = "collision"
            THEN Searched(Increment(tn), discovered_uids,
                          rest \o <<Frame(f.lower_bound, f.upper_bound, "low"),
                                    Frame(f.lower_bound, mid_point, "call")>>,
                          written \o r.wrote, r.read, muted)
            ELSE Searched(Increment(tn), discovered_uids, Unwind(rest),
                          written \o r.wrote, r.read, muted)

\* One call of binary_search_branch, up to its return or next recursive call
binary_search_branch ==
  /\ UNCHANGED screenVars
  /\ UNCHANGED <<codecVars, llrpVars>>
  /\ pc = "search"
  /\ WithinBound
  /\ LET f == stack[Len(stack)]
         rest == DropLast(stack, 1)
     IN  IF f.lower_bound > f.upper_bound
         THEN Searched(tn, discovered_uids, Unwind(rest), written, read, muted)
         ELSE IF f.lower_bound = f.upper_bound THEN search_single(f, rest)
         ELSE search_range(f, rest)
  /\ UNCHANGED <<network, openable, gateway, bus, deaf>>
  /\ UNCHANGED artnetVars

\* The end of discover_all_devices (the closing un-mute) and what
\* run_rdm_discovery does on its return, up to the first GET
discover_finish ==
  /\ UNCHANGED screenVars
  /\ UNCHANGED <<codecVars, llrpVars>>
  /\ pc = "searched"
  /\ WithinBound
  /\ LET built == build_rdm_packet(BROADCAST_ALL_DEVICES_ID, tn,
                                   DISCOVERY_COMMAND, DISC_UN_MUTE, <<>>)
         request == Request(PACKET_TYPE_RDM_PACKET_OUT, built.bytes)
         uid_list == [i \in 1..Len(discovered_uids) |-> Hex(discovered_uids[i])]
     IN  IF discovered_uids = <<>>
         THEN /\ posted' = posted \o <<RdmDevicesDiscovered(DeviceList(uid_list), ""),
                                       RdmDiscoveryMessage("...getting RDM data...", TRUE),
                                       RdmDiscoveryMessage("Discover", FALSE)>>
              /\ port' = IF port = "open" THEN "closed" ELSE port
              /\ pc' = "done"
              /\ UNCHANGED <<tn, written, read, muted, uid_index, pid_index,
                             device_data, discovered_uids, stack>>
         ELSE IF ~built.ok THEN Raised(ValueErrorText, written, read, muted)
         ELSE \E response \in Replies(request, muted) :
           LET r == send_and_receive(port, request, response, DISC_UN_MUTE)
               nowMuted == MutedAfter(request, bus, deaf, muted)
           IN  IF r.raised THEN Raised(r.error, written \o r.wrote, r.read, nowMuted)
               ELSE /\ written' = written \o r.wrote
                    /\ read' = r.read
                    /\ muted' = nowMuted
                    /\ tn' = Increment(tn)
                    /\ posted' = posted
                         \o <<RdmDevicesDiscovered(DeviceList(uid_list), ""),
                              RdmDiscoveryMessage("...getting RDM data...", TRUE)>>
                    /\ uid_index' = 1
                    /\ pid_index' = 1
                    /\ device_data' = <<>>
                    /\ pc' = "fetch"
                    /\ UNCHANGED <<port, discovered_uids, stack>>
  /\ UNCHANGED <<network, openable, gateway, bus, deaf>>
  /\ UNCHANGED artnetVars

\* device_data[key] = value, the key being the name of pid
Store(data, pid, value) ==
  [p \in (DOMAIN data) \cup {pid} |-> IF p = pid THEN value ELSE data[p]]

\* One round of get_device_parameters' loop: GET of pids_to_get[pid_index]
\* from discovered_uids[uid_index]; after the last one the detail message
\* is posted, and after the last device the run ends.
get_device_parameters ==
  /\ UNCHANGED screenVars
  /\ UNCHANGED <<codecVars, llrpVars>>
  /\ pc = "fetch"
  /\ WithinBound
  /\ LET discovered_uid == discovered_uids[uid_index]
         pid == pids_to_get[pid_index]
         built == build_rdm_packet(discovered_uid, tn, GET_COMMAND, pid, <<>>)
         request == Request(PACKET_TYPE_RDM_PACKET_OUT, built.bytes)
     IN  IF ~built.ok THEN Raised(ValueErrorText, written, read, muted)
         ELSE \E response \in Replies(request, muted) :
           LET r == send_and_receive(port, request, response, pid)
               stored == IF r.status = "ack" /\ r.rdm.data # None
                         THEN Store(device_data, r.rdm.pid, r.rdm.data)
                         ELSE device_data
               detail == RdmDeviceDetailDiscovered(
                           [uid |-> Hex(discovered_uid), params |-> stored])
           IN  IF r.raised THEN Raised(r.error, written \o r.wrote, r.read, muted)
               ELSE /\ written' = written \o r.wrote
                    /\ read' = r.read
                    /\ tn' = Increment(tn)
                    /\ UNCHANGED <<muted, discovered_uids, stack>>
                    /\ IF pid_index < Len(pids_to_get)
                       THEN /\ pid_index' = pid_index + 1
                            /\ device_data' = stored
                            /\ UNCHANGED <<uid_index, posted, port, pc>>
                       ELSE IF uid_index < Len(discovered_uids)
                       THEN /\ pid_index' = 1
                            /\ uid_index' = uid_index + 1
                            /\ device_data' = <<>>
                            /\ posted' = Append(posted, detail)
                            /\ UNCHANGED <<port, pc>>
                       ELSE /\ posted' = posted
                                 \o <<detail, RdmDiscoveryMessage("Discover", FALSE)>>
                            /\ port' = IF port = "open" THEN "closed" ELSE port
                            /\ pc' = "done"
                            /\ UNCHANGED <<uid_index, pid_index, device_data>>
  /\ UNCHANGED <<network, openable, gateway, bus, deaf>>
  /\ UNCHANGED artnetVars

\* A line of at most MaxDevices well-behaved devices, none at the
\* broadcast UID; a line whose one device ignores DISC_MUTE; a gateway that
\* may reply anything.
Lines == {l \in SUBSET (UIDs \ {full_range_upper}) : Cardinality(l) <= MaxDevices}

(***************************************************************************)
(* Art-Net discovery (tui/artnet.py) run by run_network_discovery.         *)
(***************************************************************************)
ARTNET_ID == <<65, 114, 116, 45, 78, 101, 116, 0>>
OpPoll == 8192
OpPollReply == 8448

\* An ArtPollReply as a node sends it, cut to its first len bytes: ID,
\* little-endian opcode, IP, 12 more bytes, the short name in an 18-byte
\* field at offset 26, the long name in a 64-byte field at offset 44.
Zeros(n) == [i \in 1..n |-> 0]
ArtPollReply(opcode, ip, short_name, long_name, len) ==
  SubSeq(ARTNET_ID \o <<opcode % ByteRange, opcode \div ByteRange>> \o ip
         \o Zeros(12) \o short_name \o Zeros(18 - Len(short_name))
         \o long_name \o Zeros(64 - Len(long_name)) \o Zeros(131), 1, len)

_is_artpoll_reply(data) ==
  /\ Len(data) >= 10
  /\ Slice(data, 0, 8) = ARTNET_ID
  /\ data[9] + ByteRange * data[10] = OpPollReply

\* str.strip("\x00")
StripNul(t) == Strip(t, {0})

\* bytes.decode("ascii", errors="ignore")
DecodeAscii(b) == SelectSeq(b, LAMBDA c : c < 128)

\* _parse_artpoll_reply reading the short name where the long name is.
_parse_artpoll_reply_misplaced(data, addr) ==
  IF Len(data) < 14
  THEN [found |-> FALSE, reported_ip |-> <<>>, source_ip |-> addr,
        short_name |-> <<>>, long_name |-> <<>>]
  ELSE [found |-> TRUE, reported_ip |-> Slice(data, 10, 14), source_ip |-> addr,
        short_name |-> StripNul(DecodeAscii(Slice(data, 44, 171))),
        long_name |-> StripNul(DecodeAscii(Slice(data, 44, 171)))]

\* The device record of a reply; found is FALSE for Python's None (the
\* IndexError on a missing IP byte is caught).
_parse_artpoll_reply(data, addr) ==
  IF Len(data) < 14
  THEN [found |-> FALSE, reported_ip |-> <<>>, source_ip |-> addr,
        short_name |-> <<>>, long_name |-> <<>>]
  ELSE [found |-> TRUE, reported_ip |-> Slice(data, 10, 14), source_ip |-> addr,
        short_name |-> StripNul(DecodeAscii(Slice(data, 26, 43))),
        long_name |-> StripNul(DecodeAscii(Slice(data, 44, 171)))]

\* devices[device["reported_ip"]] = device, without the membership test
RememberLatest(devs, device) ==
  IF \E i \in 1..Len(devs) : devs[i].reported_ip = device.reported_ip
  THEN [i \in 1..Len(devs) |->
          IF devs[i].reported_ip = device.reported_ip THEN device ELSE devs[i]]
  ELSE Append(devs, device)

\* if device["reported_ip"] not in devices: devices[...] = device
Remember(devs, device) ==
  IF \E i \in 1..Len(devs) : devs[i].reported_ip = device.reported_ip
  THEN devs ELSE Append(devs, device)

\* What one recvfrom of the collection loop does to the dict
Collect(devs, data, addr) ==
  IF _is_artpoll_reply(data) /\ _parse_artpoll_reply(data, addr).found
  THEN Remember(devs, _parse_artpoll_reply(data, addr))
  ELSE devs

\* Datagrams that may arrive on the socket, with their source address.
Node1 == <<78, 111, 100, 101, 49>>
Node2 == <<78, 50>>
IpA == <<10, 0, 0, 5>>
IpB == <<10, 0, 0, 6>>
IpC == <<10, 0, 0, 7>>
Datagrams ==
  {[data |-> ArtPollReply(OpPollReply, IpA, Node1, Node1, 239), addr |-> IpA],
   [data |-> ArtPollReply(OpPollReply, IpA, Node2, Node2, 239), addr |-> IpB],
   [data |-> ArtPollReply(OpPollReply, IpB, Node2, Node1, 239), addr |-> IpB],
   [data |-> ArtPollReply(OpPoll, IpB, Node2, Node2, 14), addr |-> IpB],
   [data |-> ArtPollReply(OpPollReply, IpB, Node1, Node2, 12), addr |-> IpB],
   [data |-> ArtPollReply(OpPollReply, IpC, Node1, Node1, 14), addr |-> IpC],
   [data |-> <<0>> \o ArtPollReply(OpPollReply, IpB, Node1, Node2, 238), addr |-> IpB]}

\* ArtNetDiscovery.start(), float(artnet_timeout) and the ArtPoll of
\* discover_devices.  A failed bind is printed and start() returns; float()
\* raises on a text that is no number; sendto may raise OSError.
start ==
  /\ UNCHANGED screenVars
  /\ UNCHANGED <<codecVars, llrpVars>>
  /\ pc = "start"
  /\ network \notin SerialPaths
  /\ \E timeout_is_number \in BOOLEAN, sent \in BOOLEAN :
       LET bound == IF openable THEN "bound" ELSE "unbound"
       IN  IF ~timeout_is_number
           THEN /\ posted' = Append(posted, NetworkDevicesDiscovered(NoDevices,
                                      "could not convert string to float"))
                /\ \E finalized \in BOOLEAN :
                     socket' = IF finalized THEN "closed" ELSE bound
                /\ pc' = "done"
                /\ UNCHANGED <<polls, devices, now, heard>>
           ELSE IF ~sent
           THEN /\ posted' = Append(posted, NetworkDevicesDiscovered(NoDevices,
                                      "Network is unreachable"))
                /\ \E finalized \in BOOLEAN :
                     socket' = IF finalized THEN "closed" ELSE bound
                /\ pc' = "done"
                /\ UNCHANGED <<polls, devices, now, heard>>
           ELSE /\ socket' = bound
                /\ polls' = polls + 1
                /\ devices' = <<>>
                /\ now' = 0
                /\ pc' = "collect"
                /\ UNCHANGED <<posted, heard>>
  /\ UNCHANGED <<network, openable>>
  /\ UNCHANGED serialVars

\* A loop condition that never turns false.
InWindowForever(t) == TRUE

\* while time.time() - start_time < timeout
InWindow(t) == t < Timeout

\* One round of discover_devices' loop: a datagram, a receive timeout or a
\* receive error (printed); time passes.
discover_devices ==
  /\ UNCHANGED screenVars
  /\ UNCHANGED <<codecVars, llrpVars>>
  /\ pc = "collect"
  /\ InWindow(now)
  /\ \/ \E d \in Datagrams : /\ devices' = Collect(devices, d.data, d.addr)
                              /\ heard' = heard \cup {d}
     \/ UNCHANGED <<devices, heard>>
  /\ now' \in {now, now + 1}
  /\ UNCHANGED <<network, openable, pc, posted, socket, polls>>
  /\ UNCHANGED serialVars

\* The loop ends, discover_devices returns the list; stop(); the posts
discover_devices_return ==
  /\ UNCHANGED screenVars
  /\ UNCHANGED <<codecVars, llrpVars>>
  /\ pc = "collect"
  /\ ~InWindow(now)
  /\ socket' = "closed"
  /\ posted' = posted \o <<NetworkDevicesDiscovered(DeviceList(devices), ""),
                           RdmDiscoveryMessage("Discover", FALSE)>>
  /\ pc' = "done"
  /\ UNCHANGED <<network, openable, polls, devices, now, heard>>
  /\ UNCHANGED serialVars

Idle ==
  /\ pc = "start"
  /\ port = "none"
  /\ tn = 0
  /\ discovered_uids = <<>>
  /\ stack = <<>>
  /\ written = <<>>
  /\ read = <<>>
  /\ posted = <<>>
  /\ uid_index = 0
  /\ pid_index = 0
  /\ device_data = <<>>
  /\ socket = "none"
  /\ polls = 0
  /\ devices = <<>>
  /\ now = 0
  /\ heard = {}

\* The screen once Discover was pressed for the run that pc follows.
Pressed ==
  /\ disabled = TRUE
  /\ label = "...discovering..."
  /\ workers = <<>>
  /\ mailbox = <<>>
  /\ discovered_devices = <<>>
  /\ pressed = 1

\* LlrpDiscovery.discover_devices has not been called.
Unprobed ==
  /\ llrp = "start"
  /\ probe_transaction = 0
  /\ clock = 0
  /\ deadline = 0
  /\ llrp_devices = <<>>
  /\ tx = <<>>
  /\ wait = {}
  /\ received = <<>>
  /\ returned = <<>>

\* No codec function is applied on its own.
Uncalled ==
  /\ called = "none"
  /\ args = <<>>
  /\ result = <<>>

\* A well-behaved line; its devices may be muted from an earlier run.
InitBus ==
  /\ network \in SerialPaths
  /\ openable = TRUE /\ gateway = "bus" /\ bus \in Lines /\ deaf = {}
  /\ muted \in {{}, bus}
  /\ Idle
  /\ Unprobed
  /\ Pressed
  /\ Uncalled

\* A line whose one device ignores DISC_MUTE.
InitDeaf ==
  /\ network \in SerialPaths
  /\ openable = TRUE /\ gateway = "bus" /\ bus \in {{0}, {full_range_upper - 1}}
  /\ deaf = bus /\ muted = {}
  /\ Idle
  /\ Unprobed
  /\ Pressed
  /\ Uncalled

\* A gateway that may reply anything.
InitAny ==
  /\ network \in SerialPaths
  /\ openable = TRUE /\ gateway = "any" /\ bus = {} /\ deaf = {} /\ muted = {}
  /\ Idle
  /\ Unprobed
  /\ Pressed
  /\ Uncalled

\* A device path that cannot be opened.
InitUnopenable ==
  /\ network \in SerialPaths
  /\ openable = FALSE /\ gateway = "bus" /\ bus = {} /\ deaf = {} /\ muted = {}
  /\ Idle
  /\ Unprobed
  /\ Pressed
  /\ Uncalled

InitSerial == InitBus \/ InitDeaf \/ InitAny \/ InitUnopenable

\* An Art-Net run on an interface whose address can or cannot be bound.
InitArtNet ==
  /\ network \in Interfaces
  /\ openable \in BOOLEAN
  /\ gateway = "bus" /\ bus = {} /\ deaf = {} /\ muted = {}
  /\ Idle
  /\ Unprobed
  /\ Pressed
  /\ Uncalled

vars == <<network, openable, gateway, bus, deaf, muted, pc, port, tn,
          discovered_uids, stack, written, read, posted, uid_index, pid_index,
          device_data, socket, polls, devices, now, heard, disabled, label,
          workers, mailbox, discovered_devices, pressed, called, args, result,
          llrp, probe_transaction, clock, deadline, llrp_devices, tx, wait,
          received, returned>>

Init == InitSerial \/ InitArtNet

Next ==
  \/ get_port
  \/ discover_all_devices
  \/ binary_search_branch
  \/ discover_finish
  \/ get_device_parameters
  \/ start
  \/ discover_devices
  \/ discover_devices_return

Spec == Init /\ [][Next]_vars

\* An Art-Net run alone.  The clock advances (a round of the loop takes
\* time: recvfrom returns at once only while datagrams are queued), and the
\* worker thread keeps running.
Tick == discover_devices /\ now' = now + 1

NextArtNet ==
  \/ start
  \/ discover_devices
  \/ discover_devices_return

SpecArtNet ==
  /\ InitArtNet
  /\ [][NextArtNet]_vars
  /\ WF_vars(start)
  /\ WF_vars(Tick)
  /\ WF_vars(discover_devices_return)


(***************************************************************************)
(* The discovery screen (tui/screens.py, ArtNetScreen): the Discover       *)
(* button, the interface selection, the workers and their messages.        *)
(***************************************************************************)
MaxPresses == 2

\* The messages a run_rdm_discovery worker posts, in order: found is the
\* list of UIDs of a run that succeeds, error the text of one that raises.
run_rdm_discovery(found, params, error) ==
  IF error # "" THEN <<RdmDevicesDiscovered(NoDevices, error)>>
  ELSE <<RdmDevicesDiscovered(DeviceList(found), ""),
         RdmDiscoveryMessage("...getting RDM data...", TRUE)>>
       \o [i \in 1..Len(found) |->
             RdmDeviceDetailDiscovered([uid |-> found[i], params |-> params])]
       \o <<RdmDiscoveryMessage("Discover", FALSE)>>

\* The messages a run_network_discovery worker posts, in order.
run_network_discovery(found, error) ==
  IF error # "" THEN <<NetworkDevicesDiscovered(NoDevices, error)>>
  ELSE <<NetworkDevicesDiscovered(DeviceList(found), ""),
         RdmDiscoveryMessage("Discover", FALSE)>>

\* What the runs of this model find or fail with.
FoundUids == {<<>>, <<Hex(PackUid(1))>>}
FoundParams == {<<>>, Store(<<>>, DEVICE_MODEL_DESCRIPTION, Value("text", Node1))}
FoundNodes == {<<>>, <<_parse_artpoll_reply(
                          ArtPollReply(OpPollReply, IpA, Node1, Node1, 239), IpA)>>}
RunErrors == {"", ParseErrorText}

\* A Discover press; a disabled button sends no Button.Pressed.
on_button_pressed ==
  /\ UNCHANGED runVars
  /\ UNCHANGED <<codecVars, llrpVars>>
  /\ ~disabled
  /\ pressed < MaxPresses
  /\ pressed' = pressed + 1
  /\ IF network \in SerialPaths
     THEN \E found \in FoundUids, params \in FoundParams, error \in RunErrors :
            workers' = Append(workers, run_rdm_discovery(found, params, error))
     ELSE \E found \in FoundNodes, error \in RunErrors :
            workers' = Append(workers, run_network_discovery(found, error))
  /\ disabled' = TRUE
  /\ label' = "...discovering..."
  /\ UNCHANGED <<network, mailbox, discovered_devices>>

\* Another entry of the interface list is selected.
on_select_changed ==
  /\ UNCHANGED runVars
  /\ UNCHANGED <<codecVars, llrpVars>>
  /\ \E value \in (SerialPaths \cup Interfaces) \ {network} : network' = value
  /\ disabled' = FALSE
  /\ UNCHANGED <<label, workers, mailbox, discovered_devices, pressed>>

\* self.post_message(...) in a worker; the worker ends after its last one.
post_message ==
  /\ UNCHANGED runVars
  /\ UNCHANGED <<codecVars, llrpVars>>
  /\ \E w \in 1..Len(workers) :
       /\ mailbox' = Append(mailbox, Head(workers[w]))
       /\ workers' = IF Len(workers[w]) > 1
                     THEN [workers EXCEPT ![w] = Tail(workers[w])]
                     ELSE SubSeq(workers, 1, w - 1)
                          \o SubSeq(workers, w + 1, Len(workers))
  /\ UNCHANGED <<network, disabled, label, discovered_devices, pressed>>

on_rdm_discovery_message ==
  /\ UNCHANGED runVars
  /\ UNCHANGED <<codecVars, llrpVars>>
  /\ mailbox # <<>>
  /\ Head(mailbox).type = "RdmDiscoveryMessage"
  /\ disabled' = Head(mailbox).disabled
  /\ label' = Head(mailbox).label
  /\ mailbox' = Tail(mailbox)
  /\ UNCHANGED <<network, workers, discovered_devices, pressed>>

on_rdm_devices_discovered ==
  /\ UNCHANGED runVars
  /\ UNCHANGED <<codecVars, llrpVars>>
  /\ mailbox # <<>>
  /\ Head(mailbox).type = "RdmDevicesDiscovered"
  /\ LET list == Head(mailbox).devices.list
     IN  discovered_devices' =
           [i \in 1..Len(list) |->
              [uid |-> list[i], ip_address |-> <<>>, short_name |-> list[i],
               address |-> <<>>]]
  /\ mailbox' = Tail(mailbox)
  /\ UNCHANGED <<network, disabled, label, workers, pressed>>

\* The first device with the message's uid takes the detail's names.
on_rdm_device_detail_discovered ==
  /\ UNCHANGED runVars
  /\ UNCHANGED <<codecVars, llrpVars>>
  /\ mailbox # <<>>
  /\ Head(mailbox).type = "RdmDeviceDetailDiscovered"
  /\ LET data == Head(mailbox).data
         hits == {i \in 1..Len(discovered_devices) :
                    discovered_devices[i].uid = data.uid}
         first == CHOOSE i \in hits : \A j \in hits : i <= j
         short_name == IF DEVICE_MODEL_DESCRIPTION \in DOMAIN data.params
                       THEN data.params[DEVICE_MODEL_DESCRIPTION].val
                       ELSE data.uid
         address == IF DEVICE_INFO \in DOMAIN data.params
                    THEN <<data.params[DEVICE_INFO].val[9]>>
                    ELSE <<>>
     IN  discovered_devices' =
           IF hits = {} THEN discovered_devices
           ELSE [discovered_devices EXCEPT ![first].short_name = short_name,
                                            ![first].address = address]
  /\ mailbox' = Tail(mailbox)
  /\ UNCHANGED <<network, disabled, label, workers, pressed>>

on_network_devices_discovered ==
  /\ UNCHANGED runVars
  /\ UNCHANGED <<codecVars, llrpVars>>
  /\ mailbox # <<>>
  /\ Head(mailbox).type = "NetworkDevicesDiscovered"
  /\ LET list == Head(mailbox).devices.list
     IN  discovered_devices' =
           [i \in 1..Len(list) |->
              [uid |-> <<>>, ip_address |-> list[i].source_ip,
               short_name |-> list[i].short_name, address |-> <<>>]]
  /\ mailbox' = Tail(mailbox)
  /\ UNCHANGED <<network, disabled, label, workers, pressed>>

\* The screen after on_mount: an interface is selected, nothing runs.
InitScreen ==
  /\ network \in Interfaces
  /\ openable = TRUE /\ gateway = "bus" /\ bus = {} /\ deaf = {} /\ muted = {}
  /\ Idle
  /\ Unprobed
  /\ disabled = FALSE
  /\ label = "Discover"
  /\ workers = <<>>
  /\ mailbox = <<>>
  /\ discovered_devices = <<>>
  /\ pressed = 0
  /\ Uncalled

NextScreen ==
  \/ on_button_pressed
  \/ on_select_changed
  \/ post_message
  \/ on_rdm_discovery_message
  \/ on_rdm_devices_discovered
  \/ on_rdm_device_detail_discovered
  \/ on_network_devices_discovered

SpecScreen == InitScreen /\ [][NextScreen]_vars

(***************************************************************************)
(* The codec functions applied on their own to arguments drawn from        *)
(* bounded sets: one call per behaviour.                                   *)
(***************************************************************************)
\* The longest payload handed to build_robe_packet.
MaxPayload == 65536

\* Arguments of a call; the fields a function does not take stay empty.
Args(fn, packet_type, uid, number, cc, pid, pd, pad) ==
  [fn |-> fn, packet_type |-> packet_type, uid |-> uid, tn |-> number, cc |-> cc,
   pid |-> pid, pd |-> pd, pad |-> pad]

\* n bytes b
Bytes(n, b) == [i \in 1..n |-> b]

\* Payloads of build_robe_packet: short ones, one that needs the high
\* length byte, and ones as long as a 16-bit length can or cannot tell.
Payloads ==
  {<<>>, <<0>>, <<255>>, <<0, 255>>, <<HEADER, HEADER>>, Bytes(300, 1),
   Bytes(MaxPayload - 5, 255), Bytes(MaxPayload - 4, 255), Bytes(MaxPayload, 1)}

PacketTypes ==
  {PACKET_TYPE_RDM_PACKET_OUT, PACKET_TYPE_RDM_RESPONSE,
   PACKET_TYPE_RDM_DISCOVERY_UNIQUE_BRANCH, PACKET_TYPE_RDM_DISCOVERY_RESPONSE,
   PACKET_TYPE_RDM_INFO_COMMAND, 0, 255}

\* random.getrandbits(8) four times
Pads == {<<0, 0, 0, 0>>, <<255, 1, 128, 7>>}

RobeArgs ==
  {Args("build_robe_packet", t, <<>>, 0, 0, 0, p, pad) :
     t \in PacketTypes, p \in Payloads, pad \in Pads}

CodecUids == {<<0, 0, 0, 0, 0, 0>>, <<82, 83, 0, 69, 7, 248>>,
              BROADCAST_ALL_DEVICES_ID}

\* ---- llrp.py: the builders of the LLRP packets ----

VECTOR_ROOT_LLRP == 10
VECTOR_LLRP_PROBE_REQUEST == 1
VECTOR_LLRP_RDM_CMD == 3
VECTOR_PROBE_REQUEST_DATA == 1
VECTOR_RDM_CMD_RDM_DATA == 204
E120_GET_COMMAND == 32
E120_DEVICE_LABEL == 130
E120_GET_COMMAND_RESPONSE == 33

\* b"ASC-E1.17\x00\x00\x00"
ACN_PACKET_IDENTIFIER == <<65, 83, 67, 45, 69, 49, 46, 49, 55, 0, 0, 0>>

\* uuid.UUID("fbad822c-bd0c-4d4c-bdc8-7eabebc85aff").bytes
LLRP_BROADCAST_CID ==
  <<251, 173, 130, 44, 189, 12, 77, 76, 189, 200, 126, 171, 235, 200, 90, 255>>

\* struct.pack(">I", n)
PackI(n) == PackH(n \div (ByteRange * ByteRange)) \o PackH(n % (ByteRange * ByteRange))

\* struct.pack(">HH12s", 0x0010, 0x0000, ACN_PACKET_IDENTIFIER)
Preamble == PackH(16) \o PackH(0) \o ACN_PACKET_IDENTIFIER

\* A header that tells the length of the PDU without the header itself.
_flags_length_of_body(length) ==
  <<112 + (((length - 3) \div (ByteRange * ByteRange)) % 16),
    ((length - 3) \div ByteRange) % ByteRange, (length - 3) % ByteRange>>

\* bytes([0x70 | ((length >> 16) & 0x0F), (length >> 8) & 0xFF, length & 0xFF])
_flags_length(length) ==
  <<112 + ((length \div (ByteRange * ByteRange)) % 16),
    (length \div ByteRange) % ByteRange, length % ByteRange>>

\* sum(data) & 0xFFFF
_rdm_checksum(data) == SumBytes(data) % (ByteRange * ByteRange)

_build_probe_request(manager_cid, transaction) ==
  LET lower_uid == Bytes(6, 0)
      upper_uid == Bytes(6, 255)
      llrp_filter == 0
      probe_len == 3 + 1 + 6 + 6 + 2
      llrp_len == 3 + 4 + 16 + 4 + probe_len
      root_len == 3 + 4 + 16 + llrp_len
      root_pdu == _flags_length(root_len) \o PackI(VECTOR_ROOT_LLRP) \o manager_cid
      llrp_pdu == _flags_length(llrp_len) \o PackI(VECTOR_LLRP_PROBE_REQUEST)
                  \o LLRP_BROADCAST_CID \o PackI(transaction)
      probe_pdu == _flags_length(probe_len) \o <<VECTOR_PROBE_REQUEST_DATA>>
                   \o lower_uid \o upper_uid \o PackH(llrp_filter)
  IN  Preamble \o root_pdu \o llrp_pdu \o probe_pdu

_build_rdm_get_label(manager_cid, target_cid, manager_uid, target_uid, transaction, rdm_transaction) ==
  LET message_length == 24
      rdm_message ==
        <<RDM_START_CODE, RDM_SUB_START_CODE, message_length>>
        \o target_uid \o manager_uid \o <<rdm_transaction % ByteRange, 1, 0>>
        \o <<0, 0>> \o <<E120_GET_COMMAND>> \o PackH(E120_DEVICE_LABEL) \o <<0>>
      checksum == _rdm_checksum(rdm_message)
      rdm_message_no_sc == Tail(rdm_message) \o PackH(checksum)
      rdm_pdu_len == 3 + 1 + Len(rdm_message_no_sc)
      llrp_len == 3 + 4 + 16 + 4 + rdm_pdu_len
      root_len == 3 + 4 + 16 + llrp_len
      root_pdu == _flags_length(root_len) \o PackI(VECTOR_ROOT_LLRP) \o manager_cid
      llrp_pdu == _flags_length(llrp_len) \o PackI(VECTOR_LLRP_RDM_CMD)
                  \o target_cid \o PackI(transaction)
      rdm_pdu == _flags_length(rdm_pdu_len) \o <<VECTOR_RDM_CMD_RDM_DATA>>
                 \o rdm_message_no_sc
  IN  Preamble \o root_pdu \o llrp_pdu \o rdm_pdu

\* The label of an LLRP RDM response, None unless the datagram holds a
\* GET_COMMAND_RESPONSE for DEVICE_LABEL where the function looks for it:
\* rdm is what follows the vector byte 0xCC of the RDM PDU.
_parse_rdm_label_response(data) ==
  LET offset == 16 + 23
      llrp_vector == UnpackBE(Slice(data, offset + 3, offset + 7))
      rdm == SliceFrom(data, offset + 27 + 4)
      command_class == rdm[21]
      pid == UnpackBE(Slice(rdm, 21, 23))
      pdl == rdm[24]
  IN  IF Len(data) < 16 + 23 + 27 + 4 THEN None
      ELSE IF llrp_vector # VECTOR_LLRP_RDM_CMD THEN None
      ELSE IF data[offset + 27 + 3 + 1] # VECTOR_RDM_CMD_RDM_DATA THEN None
      ELSE IF Len(rdm) < 24 THEN None
      ELSE IF command_class # E120_GET_COMMAND_RESPONSE \/ pid # E120_DEVICE_LABEL
      THEN None
      ELSE Value("text", StripNul(DecodeAscii(Slice(rdm, 24, 24 + pdl))))

\* The answer of a component to the request of _build_rdm_get_label, laid
\* out as that request is: the vector byte 0xCC, then the RDM response
\* without its start code.
LabelResponse(component_cid, manager_cid, component_uid, manager_uid, transaction, rdm_transaction, cc, pid, pd) ==
  LET rdm_message ==
        <<RDM_START_CODE, RDM_SUB_START_CODE, 24 + Len(pd)>>
        \o manager_uid \o component_uid \o <<rdm_transaction % ByteRange, 0, 0>>
        \o <<0, 0>> \o <<cc>> \o PackH(pid) \o <<Len(pd)>> \o pd
      rdm_message_no_sc == Tail(rdm_message) \o PackH(_rdm_checksum(rdm_message))
      rdm_pdu_len == 3 + 1 + Len(rdm_message_no_sc)
      llrp_len == 3 + 4 + 16 + 4 + rdm_pdu_len
      root_len == 3 + 4 + 16 + llrp_len
  IN  Preamble
      \o _flags_length(root_len) \o PackI(VECTOR_ROOT_LLRP) \o component_cid
      \o _flags_length(llrp_len) \o PackI(VECTOR_LLRP_RDM_CMD) \o manager_cid
      \o PackI(transaction)
      \o _flags_length(rdm_pdu_len) \o <<VECTOR_RDM_CMD_RDM_DATA>>
      \o rdm_message_no_sc

\* Labels of components: none, one character, names, a full 32 bytes.
Labels ==
  {<<>>, <<65>>, <<82, 111, 98, 101>>, <<71, 97, 116, 101, 119, 97, 121, 32, 49>>,
   Bytes(32, 76)}

LabelResponseArgs ==
  {[fn |-> "_parse_rdm_label_response", pd |-> text,
    data |-> LabelResponse(cid, Bytes(16, 0), uid, PackH(32752) \o Bytes(4, 255),
                           t, index + 1, E120_GET_COMMAND_RESPONSE,
                           E120_DEVICE_LABEL, text)] :
     text \in Labels, cid \in {Bytes(16, 255)}, uid \in CodecUids,
     t \in {1793971200}, index \in {0, 255}}

\* uuid.uuid4().bytes, and the CID a component sent in its probe reply
Cids == {Bytes(16, 0), [i \in 1..16 |-> (17 * i) % ByteRange], Bytes(16, 255)}

\* int(time.time()) & 0xFFFFFFFF, and (transaction + index + 1) & 0xFFFFFFFF;
\* the time of writing and the largest value below 2^31
Transactions == {0, 1, 1793971200, 2147483647}

ProbeArgs ==
  {[fn |-> "_build_probe_request", manager_cid |-> cid, transaction |-> t] :
     cid \in Cids, t \in Transactions}

GetLabelArgs ==
  {[fn |-> "_build_rdm_get_label", manager_cid |-> cid, target_cid |-> target,
    manager_uid |-> PackH(32752) \o device_id, target_uid |-> uid,
    transaction |-> t, rdm_transaction |-> index + 1] :
     cid \in {Bytes(16, 0)}, target \in Cids, device_id \in {Bytes(4, 0), Bytes(4, 255)},
     uid \in CodecUids, t \in Transactions, index \in {0, 254, 255, 299}}

\* The longest parameter data handed to build_rdm_packet.
MaxPdl == 256

\* Parameter data: short ones and ones around the longest the message
\* length byte and the length byte of the parameter data can tell.
ParameterData ==
  {<<>>, <<65>>, <<0, 1>>, <<82, 111, 98, 101>>, Bytes(231, 65), Bytes(232, 65),
   Bytes(MaxPdl - 1, 255), Bytes(MaxPdl, 65)}

RdmArgs ==
  {Args("build_rdm_packet", 0, uid, number, cc, pid, pd, <<>>) :
     uid \in CodecUids, number \in {0, 255},
     cc \in {DISCOVERY_COMMAND, GET_COMMAND},
     pid \in {DISC_MUTE, DEVICE_LABEL, 4096}, pd \in ParameterData}

\* A message is built and handed to parse_rdm_response.
RoundTripArgs ==
  {Args("parse_rdm_response(build_rdm_packet)", 0, uid, 7, cc, pid, pd, <<>>) :
     uid \in CodecUids, cc \in {DISCOVERY_COMMAND, GET_COMMAND},
     pid \in {DISC_MUTE, DEVICE_LABEL, 4096},
     pd \in {q \in ParameterData : Len(q) <= 4}}

\* Buffers handed to parse_rdm_response: responses of a device cut to every
\* length, and ones whose parameter data length byte says more than there is.
Responses ==
  {RdmResponse(<<82, 83, 0, 69, 7, 248>>, 7, 0, GET_COMMAND_RESPONSE, DEVICE_LABEL,
               <<82, 111, 98, 101>>),
   RdmResponse(<<82, 83, 0, 69, 7, 248>>, 7, 0, GET_COMMAND_RESPONSE, 4096, <<>>),
   RdmResponse(<<82, 83, 0, 69, 7, 248>>, 7, 0, GET_COMMAND_RESPONSE, 4096, <<1, 2, 3>>),
   RdmResponse(<<82, 83, 0, 69, 7, 248>>, 7, 2, GET_COMMAND_RESPONSE, DEVICE_LABEL, <<0, 0>>)}

Buffers ==
  {SubSeq(b, 1, Min(n, Len(b))) : b \in Responses, n \in 0..29}
  \cup {[b EXCEPT ![23] = 200] : b \in Responses}

BufferArgs ==
  {Args("parse_rdm_response", 0, <<>>, 0, 0, DEVICE_LABEL, b, <<>>) : b \in Buffers}

\* UIDs whose bytes take every value
AllByteUids ==
  {[i \in 1..6 |-> (a + i * step) % ByteRange] : a \in 0..(ByteRange - 1),
                                                step \in {0, 37}}

\* The reply of a device to DISC_UNIQUE_BRANCH: preamble bytes 0xFE, the
\* separator, the UID and its checksum, each byte sent as b|0xAA, b|0x55.
EncodedReply(uid, preamble) ==
  LET euid == EncodeUid(uid)
      cs == SumBytes(euid)
  IN  Bytes(preamble, 254) \o <<SEPARATOR>> \o euid
      \o <<BitOr(cs \div ByteRange, 170, 8), BitOr(cs \div ByteRange, 85, 8),
           BitOr(cs % ByteRange, 170, 8), BitOr(cs % ByteRange, 85, 8)>>

DiscoveryArgs ==
  {Args("parse_discovery_response", 0, uid, 0, 0, 0, EncodedReply(uid, preamble), <<>>) :
     uid \in AllByteUids, preamble \in {0, 1, 7}}

\* The reply with a checksum that is off by delta.
MisSummedReply(uid, preamble, delta) ==
  LET cs == (SumBytes(EncodeUid(uid)) + delta) % (ByteRange * ByteRange)
  IN  DropLast(EncodedReply(uid, preamble), 4)
      \o <<BitOr(cs \div ByteRange, 170, 8), BitOr(cs \div ByteRange, 85, 8),
           BitOr(cs % ByteRange, 170, 8), BitOr(cs % ByteRange, 85, 8)>>

\* Gateway responses that carry a discovery reply with a wrong checksum.
MisSummedArgs ==
  {[fn |-> "parse_robe_response", uid |-> uid,
    pd |-> RobeResponse(PACKET_TYPE_RDM_DISCOVERY_RESPONSE,
                        MisSummedReply(uid, preamble, delta))] :
     uid \in CodecUids \cup {PackUid(1), CONTROLLER_UID},
     preamble \in {0, 7}, delta \in {1, ByteRange, ByteRange * ByteRange - 1}}

CodecArgs ==
  LabelResponseArgs \cup MisSummedArgs \cup RobeArgs \cup RdmArgs \cup RoundTripArgs \cup BufferArgs \cup DiscoveryArgs
  \cup ProbeArgs \cup GetLabelArgs

\* The call and its return value
Call(fn, value) ==
  /\ called = "none"
  /\ args.fn = fn
  /\ called' = fn
  /\ result' = value
  /\ UNCHANGED <<args, network, runVars, screenVars, llrpVars>>

call_build_robe_packet ==
  /\ called = "none" /\ args.fn = "build_robe_packet"
  /\ Call("build_robe_packet",
          build_robe_packet(args.packet_type, args.pd, args.pad))

call_build_rdm_packet ==
  /\ called = "none" /\ args.fn = "build_rdm_packet"
  /\ Call("build_rdm_packet",
          build_rdm_packet(args.uid, args.tn, args.cc, args.pid, args.pd))

\* parse_rdm_response of the message build_rdm_packet built
call_parse_built ==
  /\ called = "none" /\ args.fn = "parse_rdm_response(build_rdm_packet)"
  /\ LET built == build_rdm_packet(args.uid, args.tn, args.cc, args.pid, args.pd)
     IN  /\ built.ok
         /\ Call("parse_rdm_response(build_rdm_packet)",
                 parse_rdm_response(built.bytes, args.pid))

call_parse_rdm_response ==
  /\ called = "none" /\ args.fn = "parse_rdm_response"
  /\ Call("parse_rdm_response", parse_rdm_response(args.pd, args.pid))

call_parse_discovery_response ==
  /\ called = "none" /\ args.fn = "parse_discovery_response"
  /\ Call("parse_discovery_response", parse_discovery_response(args.pd))

call_build_probe_request ==
  /\ called = "none" /\ args.fn = "_build_probe_request"
  /\ Call("_build_probe_request",
          _build_probe_request(args.manager_cid, args.transaction))

call_build_rdm_get_label ==
  /\ called = "none" /\ args.fn = "_build_rdm_get_label"
  /\ Call("_build_rdm_get_label",
          _build_rdm_get_label(args.manager_cid, args.target_cid, args.manager_uid,
                               args.target_uid, args.transaction,
                               args.rdm_transaction))

call_parse_robe_response ==
  /\ called = "none" /\ args.fn = "parse_robe_response"
  /\ Call("parse_robe_response", parse_robe_response(args.pd, DISC_UNIQUE_BRANCH))

call_parse_rdm_label_response ==
  /\ called = "none" /\ args.fn = "_parse_rdm_label_response"
  /\ Call("_parse_rdm_label_response", _parse_rdm_label_response(args.data))

InitCodec ==
  /\ network \in Interfaces
  /\ openable = TRUE /\ gateway = "bus" /\ bus = {} /\ deaf = {} /\ muted = {}
  /\ Idle
  /\ Unprobed
  /\ Pressed
  /\ called = "none"
  /\ args \in CodecArgs
  /\ result = <<>>

NextCodec ==
  \/ call_build_robe_packet
  \/ call_build_rdm_packet
  \/ call_parse_built
  \/ call_parse_rdm_response
  \/ call_parse_discovery_response
  \/ call_build_probe_request
  \/ call_build_rdm_get_label
  \/ call_parse_robe_response
  \/ call_parse_rdm_label_response

SpecCodec == InitCodec /\ [][NextCodec]_vars

(***************************************************************************)
(* LLRP discovery (tui/llrp.py, LlrpDiscovery.discover_devices): the probe *)
(* window, the label requests and the label window.                        *)
(***************************************************************************)
VECTOR_LLRP_PROBE_REPLY == 2
VECTOR_PROBE_REPLY_DATA == 1

\* The timeout of discover_devices and the 0.1 s of its polls, in ticks of
\* the clock; how far the clock is followed beyond a deadline; how many
\* datagrams a run receives.
LlrpTimeout == 3
SelectTicks == 2
MaxLate == 1
MaxReceived == 3

\* self.manager_cid and self.manager_uid of one LlrpDiscovery
ManagerCid == [i \in 1..16 |-> (17 * i) % ByteRange]
ManagerUid == PackH(32752) \o <<18, 52, 86, 120>>

\* n & 0xFFFFFFFF, for n below 2^31
And32(n) ==
  ((n \div (ByteRange * ByteRange)) % (ByteRange * ByteRange)) * (ByteRange * ByteRange)
  + (n % (ByteRange * ByteRange))

\* _parse_probe_reply; found is FALSE for None
NoProbeReply == [found |-> FALSE, sender_cid |-> <<>>, uid |-> <<>>, hw |-> <<>>,
                 comp_type |-> 0]
_parse_probe_reply(data) ==
  LET root_vector == UnpackBE(Slice(data, 16 + 3, 16 + 7))
      llrp_vector == UnpackBE(Slice(data, 16 + 23 + 3, 16 + 23 + 7))
      offset == 16 + 23 + 27
  IN  IF Len(data) < 16 + 23 + 27 + 17 THEN NoProbeReply
      ELSE IF root_vector # VECTOR_ROOT_LLRP THEN NoProbeReply
      ELSE IF llrp_vector # VECTOR_LLRP_PROBE_REPLY THEN NoProbeReply
      ELSE IF data[offset + 3 + 1] # VECTOR_PROBE_REPLY_DATA THEN NoProbeReply
      ELSE [found |-> TRUE, sender_cid |-> Slice(data, 16 + 7, 16 + 23),
            uid |-> Slice(data, offset + 4, offset + 10),
            hw |-> Slice(data, offset + 10, offset + 16),
            comp_type |-> data[offset + 16 + 1]]

\* The ProbeReply of a component, cut to its first len bytes: preamble, root
\* PDU with the component's CID, LLRP PDU with the manager's CID and the
\* transaction number, and the PDU with UID, hardware address and type.
ProbeReply(component_cid, asked_by, number, uid, hw, comp_type, len) ==
  SubSeq(Preamble
         \o _flags_length(23 + 27 + 17) \o PackI(VECTOR_ROOT_LLRP) \o component_cid
         \o _flags_length(27 + 17) \o PackI(VECTOR_LLRP_PROBE_REPLY) \o asked_by
         \o PackI(number)
         \o _flags_length(17) \o <<VECTOR_PROBE_REPLY_DATA>> \o uid \o hw
         \o <<comp_type>>, 1, len)

\* A label response that keeps the RDM start code after the vector byte of
\* the RDM PDU, which is where _parse_rdm_label_response reads from.
LabelResponseWithStartCode(component_cid, component_uid, number, text) ==
  LET r == LabelResponse(component_cid, ManagerCid, component_uid, ManagerUid,
                         number, 1, E120_GET_COMMAND_RESPONSE, E120_DEVICE_LABEL,
                         text)
  IN  SubSeq(r, 1, 70) \o <<RDM_START_CODE>> \o SubSeq(r, 71, Len(r))

\* Two components, their CIDs, UIDs and hardware addresses.
CidA == Bytes(16, 161)
CidB == Bytes(16, 178)
UidA == <<82, 83, 0, 0, 0, 1>>
UidB == <<82, 83, 0, 0, 0, 2>>
HwA == <<2, 0, 0, 0, 0, 10>>
Robe == <<82, 111, 98, 101>>

\* What rx_socket may receive: probe replies of two components from one
\* address and of one of them from another, a reply one byte short, and
\* label responses from a probed and from an unprobed address.
LlrpDatagrams ==
  {[data |-> ProbeReply(CidA, ManagerCid, 0, UidA, HwA, 0, 83), addr |-> IpA],
   [data |-> ProbeReply(CidB, ManagerCid, 0, UidB, HwA, 1, 83), addr |-> IpA],
   [data |-> ProbeReply(CidB, ManagerCid, 0, UidB, HwA, 1, 83), addr |-> IpB],
   [data |-> ProbeReply(CidB, ManagerCid, 0, UidB, HwA, 1, 82), addr |-> IpC],
   [data |-> LabelResponseWithStartCode(CidA, UidA, 1, Robe), addr |-> IpA],
   [data |-> LabelResponseWithStartCode(CidB, UidB, 1, Node1), addr |-> IpC]}

\* The probe transaction numbers of the runs: int(time.time()) & 0xFFFFFFFF
LlrpTransactions == {0, 1793971200}

\* The index of the device of address ip in the dict, 0 if there is none
IndexOfIp(devs, ip) ==
  IF \E i \in 1..Len(devs) : devs[i].source_ip = ip
  THEN CHOOSE i \in 1..Len(devs) : devs[i].source_ip = ip
  ELSE 0

\* devices[ip] = {...} for every accepted reply, the latest one winning.
RememberProbeLatest(devs, ip, device) ==
  IF IndexOfIp(devs, ip) # 0 THEN [devs EXCEPT ![IndexOfIp(devs, ip)] = device]
  ELSE Append(devs, device)

\* if ip in devices: continue; devices[ip] = {...}
RememberProbe(devs, ip, device) ==
  IF IndexOfIp(devs, ip) # 0 THEN devs ELSE Append(devs, device)

\* The probe loop's handling of one datagram (lines 227-243)
ProbeReceived(devs, d) ==
  LET parsed == _parse_probe_reply(d.data)
  IN  IF ~parsed.found THEN devs
      ELSE RememberProbe(devs, d.addr,
             [source_ip |-> d.addr, short_name |-> <<>>, long_name |-> <<>>,
              uid |-> Hex(parsed.uid), component_type |-> parsed.comp_type,
              target_cid |-> parsed.sender_cid, target_uid |-> parsed.uid])

\* devices[ip]["short_name"] = label, a new entry for an unknown ip.
SetLabelOrAdd(devs, ip, text) ==
  IF IndexOfIp(devs, ip) # 0
  THEN [devs EXCEPT ![IndexOfIp(devs, ip)].short_name = text]
  ELSE Append(devs, [source_ip |-> ip, short_name |-> text, long_name |-> <<>>,
                     uid |-> <<>>, component_type |-> 0, target_cid |-> <<>>,
                     target_uid |-> <<>>])

\* if ip in devices: devices[ip]["short_name"] = label
SetLabel(devs, ip, text) ==
  IF IndexOfIp(devs, ip) # 0
  THEN [devs EXCEPT ![IndexOfIp(devs, ip)].short_name = text]
  ELSE devs

\* The label loop's handling of one datagram (lines 265-271); "not label"
\* holds for None and for the empty string
LabelReceived(devs, d) ==
  LET text == _parse_rdm_label_response(d.data)
  IN  IF text = None \/ text.val = <<>> THEN devs
      ELSE SetLabel(devs, d.addr, text.val)

\* Where discover_devices goes on with any dict.
AfterProbeAlways(devs) == "request"

\* if not devices: return []
AfterProbe(devs) == IF devs = <<>> THEN "returned" ELSE "request"

\* The label requests, numbered from the probe's transaction number itself.
LabelRequestsFromProbe(devs, number) ==
  [k \in 1..Len(devs) |->
     _build_rdm_get_label(ManagerCid, devs[k].target_cid, ManagerUid,
                          devs[k].target_uid, And32(number + k - 1), k - 1)]

\* The packets of the loop over enumerate(devices.values()): index is k - 1
LabelRequests(devs, number) ==
  [k \in 1..Len(devs) |->
     _build_rdm_get_label(ManagerCid, devs[k].target_cid, ManagerUid,
                          devs[k].target_uid, And32(number + (k - 1) + 1),
                          (k - 1) + 1)]

\* list(devices.values()) once target_cid and target_uid are popped
Popped(devs) ==
  [i \in 1..Len(devs) |->
     [source_ip |-> devs[i].source_ip, short_name |-> devs[i].short_name,
      long_name |-> devs[i].long_name, uid |-> devs[i].uid,
      component_type |-> devs[i].component_type]]

\* discover_devices up to the first test of the probe loop: the probe
\* request is sent and the deadline taken.
llrp_probe ==
  /\ llrp = "start"
  /\ \E number \in LlrpTransactions :
       /\ probe_transaction' = number
       /\ tx' = <<_build_probe_request(ManagerCid, number)>>
  /\ deadline' = clock + LlrpTimeout
  /\ llrp' = "probe"
  /\ UNCHANGED <<clock, llrp_devices, wait, received, returned>>
  /\ UNCHANGED <<network, runVars, screenVars, codecVars>>

\* The clock advances while discover_devices runs.
time_passes ==
  /\ llrp \in {"probe", "probe_wait", "label", "label_wait"}
  /\ clock < deadline + MaxLate
  /\ clock' = clock + 1
  /\ UNCHANGED <<llrp, probe_transaction, deadline, llrp_devices, tx, wait,
                 received, returned>>
  /\ UNCHANGED <<network, runVars, screenVars, codecVars>>

\* while time.time() < deadline, and "if not devices: return []" after it
probe_window ==
  /\ llrp = "probe"
  /\ llrp' = IF clock < deadline THEN "probe_wait" ELSE AfterProbe(llrp_devices)
  /\ UNCHANGED <<probe_transaction, clock, deadline, llrp_devices, tx, wait,
                 received, returned>>
  /\ UNCHANGED <<network, runVars, screenVars, codecVars>>

\* select.select([rx_socket], [], [], min(0.1, remaining)) and what follows
\* it in a loop: a negative timeout raises ValueError, a timeout that
\* elapses starts the loop again, a datagram is read and handled as the
\* loop of that phase handles it.
Select(next, phase) ==
  LET remaining == deadline - clock
      timeout == Min(SelectTicks, remaining)
  IN  /\ wait' = wait \cup {timeout}
      /\ IF timeout < 0
         THEN /\ llrp' = "raised"
              /\ UNCHANGED <<clock, received, llrp_devices>>
         ELSE /\ llrp' = next
              /\ \/ /\ clock' = clock + timeout
                    /\ UNCHANGED <<received, llrp_devices>>
                 \/ /\ Len(received) < MaxReceived
                    /\ \E d \in LlrpDatagrams :
                         /\ received' = Append(received,
                              [data |-> d.data, addr |-> d.addr, phase |-> phase])
                         /\ llrp_devices' =
                              IF phase = "probe" THEN ProbeReceived(llrp_devices, d)
                              ELSE LabelReceived(llrp_devices, d)
                    /\ UNCHANGED clock
      /\ UNCHANGED <<probe_transaction, deadline, tx, returned>>
      /\ UNCHANGED <<network, runVars, screenVars, codecVars>>

\* One round of the probe loop (lines 223-243)
probe_select ==
  /\ llrp = "probe_wait"
  /\ Select("probe", "probe")

\* The loop over the devices that sends the label requests, and the label
\* deadline (lines 248-259)
send_label_requests ==
  /\ llrp = "request"
  /\ tx' = tx \o LabelRequests(llrp_devices, probe_transaction)
  /\ deadline' = clock + LlrpTimeout
  /\ llrp' = "label"
  /\ UNCHANGED <<probe_transaction, clock, llrp_devices, wait, received, returned>>
  /\ UNCHANGED <<network, runVars, screenVars, codecVars>>

\* while time.time() < label_deadline, and the return after it
label_window ==
  /\ llrp = "label"
  /\ IF clock < deadline
     THEN llrp' = "label_wait" /\ UNCHANGED returned
     ELSE llrp' = "returned" /\ returned' = Popped(llrp_devices)
  /\ UNCHANGED <<probe_transaction, clock, deadline, llrp_devices, tx, wait,
                 received>>
  /\ UNCHANGED <<network, runVars, screenVars, codecVars>>

\* One round of the label loop (lines 261-271)
label_select ==
  /\ llrp = "label_wait"
  /\ Select("label", "label")

\* An LlrpDiscovery that was started, before discover_devices is called.
InitLlrp ==
  /\ network \in Interfaces
  /\ openable = TRUE /\ gateway = "bus" /\ bus = {} /\ deaf = {} /\ muted = {}
  /\ Idle
  /\ Unprobed
  /\ Pressed
  /\ Uncalled

NextLlrp ==
  \/ llrp_probe
  \/ time_passes
  \/ probe_window
  \/ probe_select
  \/ send_label_requests
  \/ label_window
  \/ label_select

SpecLlrp == InitLlrp /\ [][NextLlrp]_vars

(***************************************************************************)
(* Properties.                                                             *)
(***************************************************************************)
\* The last message a run posted reports an error.
EndedInError ==
  pc = "done" /\ posted # <<>> /\ posted[Len(posted)].error # ""

\* C1: on a line whose devices answer DISC_UNIQUE_BRANCH with a collision,
\* a clean reply or silence and stay silent once muted, the search returns
\* exactly the UIDs of the devices on the line, each of them once.
BinarySearchFindsTheLine ==
  (network \in SerialPaths /\ gateway = "bus" /\ deaf = {} /\ openable
     /\ pc \in {"searched", "fetch", "done"})
  => /\ NoDuplicates(discovered_uids)
     /\ SeqToSet(discovered_uids) = {PackUid(d) : d \in bus}

\* The search of a line of three devices has returned after a collision
\* made it split a range.
BinarySearchFoundThree ==
  /\ gateway = "bus" /\ deaf = {} /\ pc = "searched"
  /\ Cardinality(bus) = 3
  /\ Len(discovered_uids) = 3
  /\ \E i \in 1..Len(written) :
       /\ written[i].packet_type = PACKET_TYPE_RDM_DISCOVERY_UNIQUE_BRANCH
       /\ ReqLow(written[i]) # 0

\* C2: in every state of a search, whatever the gateway replies, no UID is
\* twice in the list of discovered UIDs.
NoUidTwice == NoDuplicates(discovered_uids)

\* Two DISC_UNIQUE_BRANCH replies carried a UID and the list holds one
\* UID: the second reply repeated a UID the list had.
UidRepliedAgain ==
  /\ network \in SerialPaths
  /\ Len(discovered_uids) = 1
  /\ Cardinality({i \in 1..Len(stack) : stack[i].at = "uid"}) >= 2

\* A datagram discover_devices takes for a device
Accepted(d) ==
  _is_artpoll_reply(d.data) /\ _parse_artpoll_reply(d.data, d.addr).found

\* C3: the Art-Net device list never holds two records of one reported IP;
\* a record is that of the first accepted reply with its reported IP and
\* never changes afterwards; the list returned is that list.
ArtNetFirstReplyWins ==
  [][/\ Len(devices') >= Len(devices)
     /\ (pc = "collect" /\ pc' = "collect")
          => \A i \in 1..Len(devices) : devices'[i] = devices[i]
     /\ \A i, j \in 1..Len(devices') :
          devices'[i].reported_ip = devices'[j].reported_ip => i = j
     /\ (pc = "collect" /\ Len(devices') > Len(devices))
          => \E d \in heard' :
               /\ devices'[Len(devices')] = _parse_artpoll_reply(d.data, d.addr)
               /\ \A e \in heard :
                    Accepted(e) => _parse_artpoll_reply(e.data, e.addr).reported_ip
                                     # devices'[Len(devices')].reported_ip
     /\ (pc = "collect" /\ pc' = "done")
          => \E i \in 1..Len(posted') :
               posted'[i] = NetworkDevicesDiscovered(DeviceList(devices), "")
    ]_vars

\* Two replies with one reported IP and different names were received and
\* the list returned holds the names of the first.
ArtNetSecondReplyDiscarded ==
  /\ pc = "done"
  /\ \E d, e \in heard :
       /\ Accepted(d) /\ Accepted(e)
       /\ _parse_artpoll_reply(d.data, d.addr).reported_ip = IpA
       /\ _parse_artpoll_reply(e.data, e.addr).reported_ip = IpA
       /\ _parse_artpoll_reply(d.data, d.addr).short_name = Node1
       /\ _parse_artpoll_reply(e.data, e.addr).short_name = Node2
  /\ \E i \in 1..Len(devices) :
       devices[i].reported_ip = IpA /\ devices[i].short_name = Node1

\* C4: a run on a serial path that cannot be opened writes no request and
\* posts an error, never a device list.
UnopenablePortIsAnError ==
  (network \in SerialPaths /\ ~openable)
  => /\ written = <<>>
     /\ \A i \in 1..Len(posted) :
          posted[i].type = "RdmDevicesDiscovered"
            => posted[i].devices.is_none /\ posted[i].error # ""
     /\ pc = "done"
          => \E i \in 1..Len(posted) :
               posted[i].type = "RdmDevicesDiscovered" /\ posted[i].error # ""

\* The run on the unopenable path has ended.
UnopenableRunEnded ==
  network \in SerialPaths /\ ~openable /\ pc = "done" /\ posted # <<>>

\* C5: when the Art-Net socket cannot be bound the run fails: no ArtPoll is
\* sent and no device list is posted.
BindFailureFailsTheRun ==
  (network \in Interfaces /\ ~openable)
  => /\ polls = 0
     /\ \A i \in 1..Len(posted) :
          posted[i].type = "NetworkDevicesDiscovered" => posted[i].devices.is_none

\* C6: when a run has ended, the serial port or socket it opened is closed.
HandlesClosedAtEnd ==
  pc = "done" => port # "open" /\ socket \notin {"bound", "unbound"}

\* C7: at most one discovery worker runs at a time.
OneDiscoveryAtATime == Len(workers) <= 1

\* A response with a bad header byte, or cut before its length field ends
Malformed(response) ==
  response # <<>> /\ (response[1] # HEADER \/ Len(response) < 4)

\* C8: a malformed gateway response is taken for no response: parsing it
\* does not raise and the run does not end in an error because of it.
MalformedIsNoResponse ==
  (network \in SerialPaths /\ Malformed(read))
  => /\ ~ReceiveStatus(read, DISC_MUTE).raised
     /\ ~EndedInError

\* C9: the transaction number of every request is in 0..255 and no request
\* fails to be built because of its transaction number.
TransactionNumberIsAByte ==
  /\ pc \in {"search", "fetch"} => tn \in 0..(ByteRange - 1)
  /\ \A i \in 1..Len(written) : ReqTN(written[i]) \in 0..(ByteRange - 1)
  /\ \A i \in 1..Len(posted) : posted[i].error # ValueErrorText

\* C10: the requests written carry consecutive transaction numbers, and the
\* counter held between calls is the one the run began with, 0, plus the
\* number of requests written.
TransactionNumbersConsecutive ==
  /\ \A i \in 1..Len(written) : ReqTN(written[i]) = i - 1
  /\ ~EndedInError => tn = Len(written)

\* A run on a line with devices has searched, fetched and ended.
RunWithFetchEnded ==
  /\ pc = "done" /\ ~EndedInError
  /\ bus # {}
  /\ \E i \in 1..Len(written) : ReqCC(written[i]) = GET_COMMAND
  /\ tn = Len(written)

\* The padding build_robe_packet adds to a payload of this packet type
Padding(packet_type) ==
  IF packet_type \in {PACKET_TYPE_RDM_PACKET_OUT,
                      PACKET_TYPE_RDM_DISCOVERY_UNIQUE_BRANCH}
  THEN 4 ELSE 0

\* A built gateway packet is a valid envelope of a payload of this length.
ValidEnvelope(packet, packet_type, payload_len) ==
  /\ packet[1] = HEADER
  /\ packet[5] = (packet[1] + packet[2] + packet[3] + packet[4]) % ByteRange
  /\ packet[Len(packet)] = SumBytes(SubSeq(packet, 1, Len(packet) - 1)) % ByteRange
  /\ packet[3] + ByteRange * packet[4] = Len(packet) - 6
  /\ Len(packet) - 6 = payload_len + Padding(packet_type)

\* C13 as stated: for every packet type and payload the packet built is a
\* valid envelope whose length field is the payload length, plus 4 for the
\* two padded types.
RobeEnvelopeValid ==
  called = "build_robe_packet"
  => ValidEnvelope(result, args.packet_type, Len(args.pd))

\* C13 amended: the same for every payload that with its padding is
\* shorter than 65536 bytes, the most a 16-bit length field can tell.
RobeEnvelopeValidWithin16Bits ==
  (called = "build_robe_packet"
     /\ Len(args.pd) + Padding(args.packet_type) < ByteRange * ByteRange)
  => ValidEnvelope(result, args.packet_type, Len(args.pd))

\* A padded packet whose length needs both bytes of the length field
RobeEnvelopeOfLongPayload ==
  /\ called = "build_robe_packet"
  /\ args.packet_type = PACKET_TYPE_RDM_PACKET_OUT
  /\ Len(args.pd) = 300
  /\ result[3] = 48 /\ result[4] = 1

\* C11: the collection loop is left only once the timeout has elapsed, by
\* returning the devices accumulated so far; it is never left late by more
\* than one poll interval (a tick), and it is always left in the end,
\* whatever datagrams, receive timeouts and receive errors occur.
ArtNetLoopEndsAtTimeout ==
  /\ [](now <= Timeout)
  /\ [][(pc = "collect" /\ pc' # "collect")
          => /\ now >= Timeout
             /\ pc' = "done"
             /\ \E i \in 1..Len(posted') :
                  posted'[i] = NetworkDevicesDiscovered(DeviceList(devices), "")]_vars
  /\ ((pc = "collect") ~> (pc = "done"))

\* The loop has returned at the timeout after a malformed datagram arrived.
ArtNetLoopReturnedAfterMalformed ==
  /\ pc = "done" /\ polls = 1
  /\ now = Timeout
  /\ \E d \in heard : ~Accepted(d)
  /\ posted[1].type = "NetworkDevicesDiscovered" /\ posted[1].error = ""

\* C12: when exactly one well-formed ArtPollReply arrives in the window,
\* the list returned is one record with the reply's reported IP and short
\* name.
ArtNetOneReplyOneRecord ==
  \A d \in Datagrams, ip \in {IpA, IpB}, short_name \in {Node1, Node2},
     long_name \in {Node1, Node2} :
    (/\ d.data = ArtPollReply(OpPollReply, ip, short_name, long_name, 239)
     /\ heard = {d}
     /\ pc = "done")
    => /\ Len(devices) = 1
       /\ devices[1].reported_ip = ip
       /\ devices[1].short_name = short_name
       /\ posted[1] = NetworkDevicesDiscovered(DeviceList(devices), "")

\* The reply of the node at 10.0.0.6, whose two names differ, was the only
\* datagram and the run has returned.
ArtNetOneReplyReturned ==
  /\ pc = "done"
  /\ heard = {[data |-> ArtPollReply(OpPollReply, IpB, Node2, Node1, 239),
               addr |-> IpB]}
  /\ Len(devices) = 1

\* C14: parse_rdm_response of a message build_rdm_packet built gives back
\* the parameter ID and the parameter data the message was built from (and
\* with them the UIDs and the command class).
RdmRoundTripRecovers ==
  called = "parse_rdm_response(build_rdm_packet)"
  => /\ result.pid = args.pid
     /\ result.data # None
     /\ result.data.val = args.pd

\* C15: parse_discovery_response of a discovery reply that encodes a UID
\* in the redundant form returns that UID.
DiscoveryReplyDecodes ==
  called = "parse_discovery_response" => result = args.uid

\* The reply of the UID aa:aa:aa:aa:aa:aa, every byte of it the separator,
\* behind 7 preamble bytes has been decoded.
SeparatorUidDecoded ==
  /\ called = "parse_discovery_response"
  /\ args.uid = Bytes(6, SEPARATOR)
  /\ Len(args.pd) = 24
  /\ result = Bytes(6, SEPARATOR)

\* C16: build_rdm_packet builds a message for parameter data of 0 to 255
\* bytes and fails exactly for longer ones.
RdmBuiltUpTo255 ==
  called = "build_rdm_packet" => (result.ok <=> Len(args.pd) <= 255)

\* (None, None)
ParseFailed == [pid |-> -1, data |-> None]

\* A buffer shorter than an RDM message without parameter data (25 bytes
\* after the start code), or whose parameter data length tells more bytes
\* than the buffer holds before its checksum
TooShort(buffer) ==
  \/ Len(buffer) < 25
  \/ 23 + buffer[23] + 2 > Len(buffer)

\* C17: parse_rdm_response returns neither a parameter ID nor data for a
\* buffer that is too short.
ShortBufferFailsToParse ==
  (called = "parse_rdm_response" /\ TooShort(args.pd)) => result = ParseFailed

\* The 20-bit length told by the flags-and-length header at an offset
PduLength(packet, offset) ==
  (packet[offset + 1] % 16) * ByteRange * ByteRange
  + packet[offset + 2] * ByteRange + packet[offset + 3]

\* The header at an offset has the flags 0x7 and tells the bytes from its
\* first byte to the end of the packet, where each of the nested PDUs ends.
PduSpansToEnd(packet, offset) ==
  /\ packet[offset + 1] \div 16 = 7
  /\ PduLength(packet, offset) = Len(packet) - offset

\* C18: in the packets of _build_probe_request and _build_rdm_get_label the
\* length of the Root PDU, of the LLRP PDU and of the innermost PDU is the
\* number of bytes from its header to its end, and the flags are 0x7.
LlrpPduLengthsExact ==
  called \in {"_build_probe_request", "_build_rdm_get_label"}
  => /\ Len(result) = IF called = "_build_probe_request" THEN 16 + 23 + 27 + 18
                      ELSE 16 + 23 + 27 + 4 + 25
     /\ SubSeq(result, 1, 16) = Preamble
     /\ PduSpansToEnd(result, 16)
     /\ PduSpansToEnd(result, 16 + 23)
     /\ PduSpansToEnd(result, 16 + 23 + 27)

\* A label request has been built: its RDM PDU tells 29 bytes, its LLRP PDU
\* 56 and its Root PDU 79.
LlrpLabelRequestBuilt ==
  /\ called = "_build_rdm_get_label"
  /\ args.rdm_transaction = 256
  /\ SubSeq(result, 67, 70) = <<112, 0, 29, VECTOR_RDM_CMD_RDM_DATA>>
  /\ SubSeq(result, 40, 42) = <<112, 0, 56>>
  /\ SubSeq(result, 17, 19) = <<112, 0, 79>>

\* The last two bytes of a message are the sum modulo 2^16 of the start code
\* and of all the bytes of the message before them.
ChecksumCovers(message) ==
  LET body == SubSeq(message, 1, Len(message) - 2)
      sum == (RDM_START_CODE + SumBytes(body)) % (ByteRange * ByteRange)
  IN  /\ message[Len(message) - 1] = sum \div ByteRange
      /\ message[Len(message)] = sum % ByteRange

\* C19: the last two bytes of an RDM message built by build_rdm_packet and
\* by _build_rdm_get_label are the sum modulo 2^16 of the start code 0xCC and
\* of every byte of the message up to the end of the parameter data.
RdmChecksumCoversMessage ==
  /\ (called = "build_rdm_packet" /\ result.ok)
     => /\ Len(result.bytes) = 25 + Len(args.pd)
        /\ ChecksumCovers(result.bytes)
  /\ called = "_build_rdm_get_label"
     => /\ Len(result) = 70 + 25
        /\ ChecksumCovers(SubSeq(result, 71, Len(result)))

\* The longest message that can be built, with 231 bytes of parameter data,
\* has been built, and its checksum takes both bytes.
RdmLongestMessageSummed ==
  /\ called = "build_rdm_packet"
  /\ result.ok
  /\ Len(args.pd) = 231
  /\ result.bytes[Len(result.bytes) - 1] > 0

\* A call of binary_search_branch over a range got a clean reply with one
\* UID: the call waits at its recursive call over the same range.
CleanReplyStep ==
  /\ pc = "search"
  /\ Len(stack') = Len(stack) + 1
  /\ stack'[Len(stack)].at = "uid"

\* C20: after a clean single-UID reply to a DISC_UNIQUE_BRANCH over a range,
\* a DISC_MUTE to the UID (one of the discovered ones) has been written behind
\* the DISC_UNIQUE_BRANCH, and the search of the same range comes next.
MuteFollowsCleanReply ==
  [][CleanReplyStep
     => LET f == stack[Len(stack)]
            branch == written'[Len(written) + 1]
            mute == written'[Len(written')]
        IN  /\ ReqPid(branch) = DISC_UNIQUE_BRANCH
            /\ ReqLow(branch) = f.lower_bound /\ ReqHigh(branch) = f.upper_bound
            /\ stack'[Len(stack')] = Frame(f.lower_bound, f.upper_bound, "call")
            /\ Len(written') = Len(written) + 2
            /\ ReqPid(mute) = DISC_MUTE
            /\ ReqDest(mute) \in SeqToSet(discovered_uids')]_vars

\* C21: discover_all_devices ends after finitely many requests, also on a
\* line whose device keeps answering DISC_UNIQUE_BRANCH after its DISC_MUTE:
\* every step of the search writes a request, and no run writes more than
\* 256 of them.
SearchTerminates ==
  [][/\ Len(written') <= ByteRange
     /\ (pc = "search" /\ pc' = "search") => Len(written') > Len(written)]_vars

\* The search of a line whose device ignores DISC_MUTE has ended, after 256
\* requests, with the error of the 257th.
DeafSearchEnded ==
  /\ deaf # {}
  /\ pc = "done"
  /\ Len(written) = ByteRange
  /\ posted = <<RdmDevicesDiscovered(NoDevices, ValueErrorText)>>

\* C22: the calls of binary_search_branch are never nested deeper than the
\* UID space has bits.
RecursionDepthBounded == Len(stack) <= UIDBits

\* The request is the un-mute of every device: DISC_UN_MUTE to ff:ff:ff:ff:ff:ff.
IsUnMuteAll(r) ==
  /\ r.packet_type = PACKET_TYPE_RDM_PACKET_OUT
  /\ ReqCC(r) = DISCOVERY_COMMAND
  /\ ReqPid(r) = DISC_UN_MUTE
  /\ ReqDest(r) = <<255, 255, 255, 255, 255, 255>>

\* C23: when the search has returned and discover_all_devices goes on without
\* an error, it has sent one more request, the broadcast DISC_UN_MUTE.
UnMuteAllEndsTheSearch ==
  [][(pc = "searched" /\ pc' # "searched" /\ ~EndedInError')
     => /\ Len(written') = Len(written) + 1
        /\ IsUnMuteAll(written'[Len(written')])]_vars

\* C24: nothing is searched before the first request, and the first request
\* of a run is the broadcast DISC_UN_MUTE; every DISC_UNIQUE_BRANCH and
\* DISC_MUTE comes behind it.
UnMuteAllStartsTheSearch ==
  /\ written = <<>> => (stack = <<>> /\ discovered_uids = <<>>)
  /\ written # <<>> => IsUnMuteAll(written[1])
  /\ \A i \in 1..Len(written) :
       ReqPid(written[i]) \in {DISC_UNIQUE_BRANCH, DISC_MUTE} => i > 1

\* A search has sent its un-mute, a DISC_UNIQUE_BRANCH and a DISC_MUTE.
SearchedAndMuted ==
  /\ Len(written) >= 3
  /\ IsUnMuteAll(written[1])
  /\ ReqPid(written[2]) = DISC_UNIQUE_BRANCH
  /\ ReqPid(written[3]) = DISC_MUTE

\* The midpoint binary_search_branch splits the range of a call at
MidPoint(f) == (f.lower_bound + f.upper_bound) \div 2

\* C25: a call that got a collision has a range of more than one UID and
\* calls itself on [low, mid]; when that call has returned, and only then, it
\* calls itself on [mid + 1, high] and never on the lower half again.  Every
\* request of a call is for the range of that call, so the requests for the
\* lower half all come before those for the upper half.
CollisionSplitsInHalves ==
  /\ [][\A i \in 1..Len(stack) :
          /\ stack[i].at = "call" /\ i <= Len(stack') /\ stack'[i].at = "low"
             => /\ stack'[i] = Frame(stack[i].lower_bound, stack[i].upper_bound, "low")
                /\ stack[i].lower_bound <= MidPoint(stack[i])
                /\ MidPoint(stack[i]) + 1 <= stack[i].upper_bound
                /\ stack' = SubSeq(stack, 1, i - 1)
                     \o <<stack'[i], Frame(stack[i].lower_bound, MidPoint(stack[i]), "call")>>
          /\ stack[i].at = "low" /\ (i > Len(stack') \/ stack'[i] # stack[i])
             => stack' = SubSeq(stack, 1, i - 1)
                  \o <<Frame(stack[i].lower_bound, stack[i].upper_bound, "high"),
                       Frame(MidPoint(stack[i]) + 1, stack[i].upper_bound, "call")>>
          /\ stack[i].at = "high" /\ i <= Len(stack') => stack'[i].at # "low"]_vars
  /\ [][(pc = "search" /\ Len(written') > Len(written))
        => LET f == stack[Len(stack)]
               request == written'[Len(written) + 1]
           IN  IF f.lower_bound = f.upper_bound
               THEN ReqPid(request) = DISC_MUTE
                    /\ ReqDest(request) = PackUid(f.lower_bound)
               ELSE ReqPid(request) = DISC_UNIQUE_BRANCH
                    /\ ReqLow(request) = f.lower_bound
                    /\ ReqHigh(request) = f.upper_bound]_vars

\* After a collision over the whole space the lower half has been searched,
\* a device was found in it, and the call of the upper half is next.
UpperHalfNext ==
  /\ Len(stack) = 2
  /\ stack[1] = Frame(0, full_range_upper, "high")
  /\ stack[2] = Frame(MidPoint(stack[1]) + 1, full_range_upper, "call")
  /\ discovered_uids # <<>>

\* C26: a call of binary_search_branch for a single UID sends one request,
\* the DISC_MUTE to that UID; the UID is in the list when the ACK of the
\* device came back, and the list is unchanged when nothing came back.
SingleUidIsMuted ==
  [][(pc = "search" /\ Len(written) < ByteRange
      /\ stack[Len(stack)].lower_bound = stack[Len(stack)].upper_bound)
     => LET uid == PackUid(stack[Len(stack)].lower_bound)
            request == written'[Len(written')]
        IN  /\ Len(written') = Len(written) + 1
            /\ request.packet_type = PACKET_TYPE_RDM_PACKET_OUT
            /\ ReqCC(request) = DISCOVERY_COMMAND
            /\ ReqPid(request) = DISC_MUTE
            /\ ReqDest(request) = uid
            /\ read' = MuteAck(uid, ReqTN(request))
               => discovered_uids' = AppendNew(discovered_uids, uid)
                  /\ uid \in SeqToSet(discovered_uids')
            /\ read' = <<>> => discovered_uids' = discovered_uids]_vars

\* Two single UIDs were checked one after the other, both answered with
\* their ACK, and both are in the list.
TwoSingleUidsFound ==
  /\ Len(written) >= 2
  /\ ReqPid(written[Len(written)]) = DISC_MUTE
  /\ ReqPid(written[Len(written) - 1]) = DISC_MUTE
  /\ ReqDest(written[Len(written)]) # ReqDest(written[Len(written) - 1])
  /\ read = MuteAck(ReqDest(written[Len(written)]), ReqTN(written[Len(written)]))
  /\ {ReqDest(written[Len(written)]), ReqDest(written[Len(written) - 1])}
       \subseteq SeqToSet(discovered_uids)

\* C27: a discovery reply whose checksum is wrong is decoded all the same:
\* parse_robe_response gives the status "uid" with the UID of the reply.
MisSummedReplyIsAUid ==
  called = "parse_robe_response"
  => /\ ~result.raised
     /\ result.status = "uid"
     /\ result.uid = args.uid

\* The reply of 52:53:02:00:00:15 with a checksum one too high was parsed.
MisSummedReplyParsed ==
  /\ called = "parse_robe_response"
  /\ args.uid = CONTROLLER_UID
  /\ result.status = "uid"
  /\ result.uid = CONTROLLER_UID

\* The GET requests written so far, in order
GetRequests == SelectSeq(written, LAMBDA r : ReqCC(r) = GET_COMMAND)

\* C28: when a run has ended, each discovered device has been sent the seven
\* GET requests of pids_to_get in their order, whatever was answered.
SevenGetsPerDevice ==
  (network \in SerialPaths /\ pc = "done" /\ GetRequests # <<>>)
  => /\ Len(GetRequests) = Len(pids_to_get) * Len(discovered_uids)
     /\ \A i \in 1..Len(GetRequests) :
          /\ ReqPid(GetRequests[i]) = pids_to_get[((i - 1) % Len(pids_to_get)) + 1]
          /\ ReqDest(GetRequests[i])
               = discovered_uids[((i - 1) \div Len(pids_to_get)) + 1]

\* The detail messages posted so far, in order
DetailsPosted ==
  SelectSeq(posted, LAMBDA m : m.type = "RdmDeviceDetailDiscovered")

LabelResponseAccepted ==
  called = "_parse_rdm_label_response" => result = Value("text", args.pd)

\* A datagram that is a whole ArtPollReply: the ID, the opcode, and long
\* enough for the IP, the short name and the long name (64 bytes at offset 44)
CompleteArtPollReply(data) ==
  /\ _is_artpoll_reply(data)
  /\ Len(data) >= 44 + 64

\* C36: a datagram that is no complete ArtPollReply adds no record to the
\* Art-Net devices and does not end the collection loop.
IncompleteReplySkipped ==
  [][(pc = "collect" /\ heard' # heard
      /\ \A d \in heard' \ heard : ~CompleteArtPollReply(d.data))
     => devices' = devices /\ pc' = "collect"]_vars

\* C37: a UID recorded from the reply to a DISC_UNIQUE_BRANCH over
\* [lower_bound, upper_bound] lies within that range.
RecordedUidWithinRange ==
  [][LET f == stack[Len(stack)]
     IN  (pc = "search" /\ f.lower_bound < f.upper_bound
          /\ Len(discovered_uids') > Len(discovered_uids))
         => UnpackBE(discovered_uids'[Len(discovered_uids')])
              \in f.lower_bound..f.upper_bound]_vars

\* C38: a round of get_device_parameters stores a value only under the
\* parameter it has just requested, and leaves the other stored values alone.
StoredUnderRequestedPid ==
  [][(pc = "fetch" /\ pid_index < Len(pids_to_get) /\ pc' = "fetch")
     => /\ (DOMAIN device_data') \ (DOMAIN device_data) \subseteq {pids_to_get[pid_index]}
        /\ \A p \in DOMAIN device_data :
             p # pids_to_get[pid_index] => device_data'[p] = device_data[p]]_vars

\* C39: the Discover button is not left disabled while no discovery run is
\* active: with no worker running and every posted message handled, the
\* button is enabled.
ButtonEnabledWhenIdle ==
  (workers = <<>> /\ mailbox = <<>>) => ~disabled

\* The positions in received of the accepted probe replies of the probe
\* window, and of the first of them from each address.
AcceptedProbes ==
  {j \in 1..Len(received) :
     received[j].phase = "probe" /\ _parse_probe_reply(received[j].data).found}
FirstProbes ==
  {j \in AcceptedProbes :
     \A k \in AcceptedProbes : received[k].addr = received[j].addr => j <= k}

\* C31: discover_devices holds at most one device per source IP, and it
\* carries the UID, the CID and the component type of the first accepted
\* ProbeReply from that IP, whatever came from that IP afterwards.
LlrpFirstReplyWins ==
  /\ \A i, j \in 1..Len(llrp_devices) :
       llrp_devices[i].source_ip = llrp_devices[j].source_ip => i = j
  /\ \A i \in 1..Len(llrp_devices) :
       \E j \in FirstProbes :
         /\ received[j].addr = llrp_devices[i].source_ip
         /\ llrp_devices[i].target_uid = SubSeq(received[j].data, 71, 76)
         /\ llrp_devices[i].uid = Hex(SubSeq(received[j].data, 71, 76))
         /\ llrp_devices[i].target_cid = SubSeq(received[j].data, 24, 39)
         /\ llrp_devices[i].component_type = received[j].data[83]

\* Two components answered the probe from one address, one after the other.
LlrpSecondReplyFromSameIp ==
  /\ llrp = "returned"
  /\ \E j, k \in AcceptedProbes :
       /\ j < k
       /\ received[j].addr = received[k].addr
       /\ received[j].data # received[k].data

\* The i-th smallest member of a set of positions
Nth(S, i) == CHOOSE j \in S : Cardinality({k \in S : k <= j}) = i

\* The addresses whose label response was accepted in the label window
LabelledIps ==
  {received[j].addr : j \in {k \in 1..Len(received) :
     /\ received[k].phase = "label"
     /\ _parse_rdm_label_response(received[k].data) # None
     /\ _parse_rdm_label_response(received[k].data).val # <<>>}}

\* C32: the label phase adds and removes no device: the devices held and
\* returned are those of the probe phase in first-reply order, a device
\* whose address sent no accepted label response has an empty short_name,
\* and a label response from an unprobed address changes nothing.
LlrpLabelPhaseKeepsDevices ==
  /\ Len(llrp_devices) = Cardinality(FirstProbes)
  /\ \A i \in 1..Len(llrp_devices) :
       /\ llrp_devices[i].source_ip = received[Nth(FirstProbes, i)].addr
       /\ llrp_devices[i].source_ip \notin LabelledIps
            => llrp_devices[i].short_name = <<>>
  /\ llrp = "returned" =>
       /\ Len(returned) = Cardinality(FirstProbes)
       /\ \A i \in 1..Len(returned) :
            /\ returned[i].source_ip = received[Nth(FirstProbes, i)].addr
            /\ returned[i].uid = llrp_devices[i].uid
            /\ returned[i].source_ip \notin LabelledIps
                 => returned[i].short_name = <<>>

\* A run heard an accepted label response from an address that had not
\* answered the probe, and returned a device with an empty short_name.
LlrpLabelFromUnprobedIp ==
  /\ llrp = "returned"
  /\ returned # <<>>
  /\ \E ip \in LabelledIps : \A i \in 1..Len(returned) : returned[i].source_ip # ip
  /\ \E i \in 1..Len(returned) : returned[i].short_name = <<>>

\* The label requests among the packets sent: the LLRP vector of a packet
\* is VECTOR_LLRP_RDM_CMD.
GetsSent ==
  {k \in 1..Len(tx) : UnpackBE(SubSeq(tx[k], 43, 46)) = VECTOR_LLRP_RDM_CMD}

\* C33: a probe phase that ends with zero devices makes discover_devices
\* return an empty list at once: no RDM GET is sent and no label window is
\* opened.
LlrpNoDevicesNoLabelPhase ==
  /\ [](llrp_devices = <<>> =>
          /\ llrp \notin {"request", "label", "label_wait"}
          /\ GetsSent = {}
          /\ llrp = "returned" => returned = <<>>)
  /\ [][(llrp = "probe" /\ clock >= deadline /\ llrp_devices = <<>>
         /\ llrp' # llrp)
        => (llrp' = "returned" /\ returned' = <<>> /\ tx' = tx)]_vars

\* The probe window closed on datagrams none of which was a probe reply.
LlrpProbeFoundNothing ==
  /\ llrp = "returned"
  /\ llrp_devices = <<>>
  /\ received # <<>>

\* C34: after a probe phase that found n >= 1 devices exactly n label
\* requests are sent, the k-th to the CID and the UID of the k-th device in
\* first-reply order with the LLRP transaction number (probe transaction +
\* k) mod 2^32, and none is sent while the probe window is open.
LlrpOneLabelRequestPerDevice ==
  /\ [](/\ llrp \in {"start", "probe", "probe_wait", "request"} => GetsSent = {}
        /\ llrp \in {"label", "label_wait"} =>
             /\ Len(tx) = 1 + Len(llrp_devices)
             /\ GetsSent = 2..Len(tx))
  /\ [][llrp = "request" =>
          /\ Len(tx') = Len(tx) + Len(llrp_devices)
          /\ \A k \in 1..Len(llrp_devices) :
               LET packet == tx'[Len(tx) + k]
                   first == received[Nth(FirstProbes, k)]
               IN  /\ SubSeq(packet, 47, 62) = SubSeq(first.data, 24, 39)
                   /\ SubSeq(packet, 73, 78) = SubSeq(first.data, 71, 76)
                   /\ UnpackBE(SubSeq(packet, 63, 66))
                        = And32(probe_transaction + k)]_vars

\* The label requests of two devices were sent.
LlrpTwoLabelRequestsSent ==
  /\ llrp = "label"
  /\ Len(llrp_devices) = 2
  /\ Len(tx) = 3

\* C35: every wait for a datagram is given a timeout between 0 and 100 ms,
\* whenever the clock advances between the test of the deadline and the
\* computation of the remaining time.
LlrpSelectTimeoutInRange ==
  \A timeout \in wait : timeout \in 0..SelectTicks
====
